---------------------------- MODULE Spec2Model ----------------------------
(***************************************************************************)
(* A model of the online half of the search system:                       *)
(*                                                                         *)
(*   - the index server (src/index_server/index/api/main.py): the          *)
(*     in-memory tables INDEX_DATA, STOPWORDS, PAGERANK, the semantic      *)
(*     engine, and perform_enhanced_search with everything it calls;       *)
(*   - the search server (src/search_server/search/views/main.py):         *)
(*     _fetch_enhanced_search_results, one thread per index segment        *)
(*     URL, the join, the merge.                                           *)
(*                                                                         *)
(* The two servers are separate processes; a behaviour of Spec follows     *)
(* one of them (variable server).                                          *)
(*                                                                         *)
(* Numbers.  Python floats are modelled in fixed point: the integer x      *)
(* stands for x / Scale.  Index values, weights and PageRank values are    *)
(* chosen so that the arithmetic of the checked cases stays within the     *)
(* 32-bit integers of the model checker.                                   *)
(*                                                                         *)
(* Text.  A string is a sequence of one-character strings, so that the     *)
(* character filter, the case folding and the split of process_query       *)
(* are computed and not assumed.                                           *)
(***************************************************************************)
EXTENDS Integers, Sequences, FiniteSets, TLC

\* Fixed-point unit of the float model (x stands for x / Scale).
Scale == 10000

\* ------------------------------------------------------------------ bounds

\* Longest query, in words, put to the index server.
MaxQueryWords == 2

\* Documents 1..BigDocs all contain the term "apache" in the main corpus.
BigDocs == 11

\* Hits in the well-formed answer of an index segment (segment 1 has one more).
ShardHitsLen == 4

\* Documents of a collection given to the pipeline, and their largest docid.
MaxDocs == 2
MaxDocId == 4

\* -------------------------------------------------------- program constants

\* index.api.main: final_results[:10]; search.views.main: all_hits_sorted[:10]
TopK == 10

\* len(SEARCH_INDEX_SEGMENT_API_URLS)
NumShards == 3

\* top_k of get_semantic_results in semantic mode and in hybrid mode
SemanticTopK == 100
HybridTopK == 50

\* semantic_search keeps similarities > 0.1
SimThreshold == 1000

\* ------------------------------------------------------------------ helpers

\* None: CURRENT_DOC = None, self.doc_embeddings = None (docids and the
\* numbers of rows of an array of embeddings are positive)
None == 0

\* A field of a line holding text that is not a number: int() and float()
\* raise ValueError on it.  (docids, counts and norms are never negative, and
\* no idf of the checked cases is -1/Scale.)
NonNumeric == -1

is_number(field) == field # NonNumeric


Min(a, b) == IF a <= b THEN a ELSE b

Range(s) == {s[i] : i \in DOMAIN s}

Reverse(s) == [i \in 1..Len(s) |-> s[Len(s) + 1 - i]]

RECURSIVE SumSeq(_)
SumSeq(s) == IF s = <<>> THEN 0 ELSE s[1] + SumSeq(Tail(s))

RECURSIVE Concat(_)
\* list.extend over a sequence of lists
Concat(ss) == IF ss = <<>> THEN <<>> ELSE ss[1] \o Concat(Tail(ss))

\* Number of occurrences of x in s
Count(x, s) == Cardinality({i \in DOMAIN s : s[i] = x})

\* ------------------------------------------------------------- fixed point

\* a * b and a / b on fixed-point numbers (operands >= 0)
FMul(a, b) == (a * b) \div Scale
FDiv(a, b) == (a * Scale) \div b

RECURSIVE ISqrtFrom(_, _, _)
\* largest r in lo..hi with r * r <= n (binary search)
ISqrtFrom(n, lo, hi) ==
    IF lo >= hi THEN lo
    ELSE LET mid == (lo + hi + 1) \div 2
         IN  IF mid <= 46340 /\ mid * mid <= n
             THEN ISqrtFrom(n, mid, hi)
             ELSE ISqrtFrom(n, lo, mid - 1)

\* math.sqrt of a sum of squares of fixed-point numbers: n is in units of
\* 1/Scale^2, the result in units of 1/Scale.
FSqrt(n) == ISqrtFrom(n, 0, Min(n, 46340))

\* --------------------------------------------------------------------- text

Lowercase == << "a", "b", "c", "d", "e", "f", "g", "h", "i", "j", "k", "l", "m",
                "n", "o", "p", "q", "r", "s", "t", "u", "v", "w", "x", "y", "z" >>
Uppercase == << "A", "B", "C", "D", "E", "F", "G", "H", "I", "J", "K", "L", "M",
                "N", "O", "P", "Q", "R", "S", "T", "U", "V", "W", "X", "Y", "Z" >>
Digits == {"0", "1", "2", "3", "4", "5", "6", "7", "8", "9"}

\* The characters the pattern [^a-zA-Z0-9 ]+ leaves in place
QueryChars == Range(Lowercase) \cup Range(Uppercase) \cup Digits \cup {" "}

\* re.sub(r"[^a-zA-Z0-9 ]+", "", query)
re_sub_query(query) == SelectSeq(query, LAMBDA c : c \in QueryChars)

\* str.casefold on one character that passed the filter
casefold_char(c) ==
    IF c \in Range(Uppercase)
    THEN Lowercase[CHOOSE i \in DOMAIN Uppercase : Uppercase[i] = c]
    ELSE c

casefold(text) == [i \in DOMAIN text |-> casefold_char(text[i])]

RECURSIVE split_from(_, _, _)
\* str.split(): words are the maximal runs of non-space characters;
\* cur is the word being read, acc the words read so far.
split_from(text, cur, acc) ==
    IF text = <<>>
    THEN IF cur = <<>> THEN acc ELSE Append(acc, cur)
    ELSE IF text[1] = " "
         THEN split_from(Tail(text), <<>>,
                         IF cur = <<>> THEN acc ELSE Append(acc, cur))
         ELSE split_from(Tail(text), Append(cur, text[1]), acc)

split(text) == split_from(text, <<>>, <<>>)

\* The words used in indexes and queries
W_water == << "w", "a", "t", "e", "r" >>
W_bottle == << "b", "o", "t", "t", "l", "e" >>
W_apache == << "a", "p", "a", "c", "h", "e" >>
W_hadoop == << "h", "a", "d", "o", "o", "p" >>
W_mapreduce == << "m", "a", "p", "r", "e", "d", "u", "c", "e" >>
W_nlp == << "n", "l", "p" >>
W_aaaaaaa == << "a", "a", "a", "a", "a", "a", "a" >>
W_the == << "t", "h", "e" >>
W_zzz == << "z", "z", "z" >>
\* "Apache," as typed by a user
W_ApacheComma == << "A", "p", "a", "c", "h", "e", "," >>

\* Words a query is made of, as typed
RawWords == { W_water, W_bottle, W_apache, W_hadoop, W_aaaaaaa, W_the, W_zzz,
              W_ApacheComma }

RECURSIVE JoinWords(_)
\* " ".join(words)
JoinWords(ws) ==
    IF ws = <<>> THEN <<>>
    ELSE IF Len(ws) = 1 THEN ws[1]
    ELSE ws[1] \o << " " >> \o JoinWords(Tail(ws))

\* The query strings put to the index server
Queries ==
    { JoinWords(ws) : ws \in UNION { [1..n -> RawWords] : n \in 0..MaxQueryWords } }

\* -------------------------------------------------------------------- state

VARIABLES
    server,            \* the process this behaviour follows
    \* index server
    INDEX_DATA,        \* term -> tokens of its line: <<term, idf, docid, tf, norm, ...>>
    STOPWORDS,         \* set of terms
    PAGERANK,          \* docid -> score
    semantic_engine,   \* the SemanticSearchEngine instance
    call,              \* the last perform_enhanced_search call and what it returned
    args,              \* request.args of the request to GET /hits/ in flight
    response,          \* the JSON object get_hits returned for it
    reload,            \* a later run of load_index: its position and its tables
    \* search server, one _fetch_enhanced_search_results call
    pc,                \* position of the request's main thread
    request,           \* [query, weight, search_mode]
    next_thread,       \* index of the next thread to start, then to join
    thread,            \* url index -> position of its fetch thread
    answer,            \* url index -> what the index segment answered
    json_response,     \* url index -> local variable json_response of fetch
    responses,         \* list of the hit lists appended by the threads
    search_metadata,   \* dict shared by the threads
    results,           \* what the call returned
    \* inverted-index pipeline, one run over one collection
    program,           \* the program that is running: "map2", "reduce3", ...
    stdin,             \* the lines the program has not read yet
    globals,           \* the module-level variables of the program
    stdout,            \* the lines the program has printed
    exit_status,       \* "running", "done" (end of input) or "aborted" (exception)
    noise,             \* the malformed line of this run and the program that reads it
    total_document_count,  \* total_document_count.txt, <<>> before job 0
    partition_no,      \* the segment whose reducer runs in job 5
    output_dir         \* program -> the lines it printed (the jobs' outputs)

index_vars == << INDEX_DATA, STOPWORDS, PAGERANK, semantic_engine, call,
                args, response, reload >>
search_vars == << pc, request, next_thread, thread, answer, json_response,
                  responses, search_metadata, results >>
pipeline_vars == << program, stdin, globals, stdout, exit_status, noise,
                    total_document_count, partition_no, output_dir >>
vars == << server, index_vars, search_vars, pipeline_vars >>

\* --------------------------------------------------------- sorting of hits

RECURSIVE insert_desc(_, _)
\* x placed after every element of the sorted list whose score is >= its own
insert_desc(x, sorted) ==
    IF sorted = <<>> THEN << x >>
    ELSE IF sorted[1].score >= x.score
         THEN << sorted[1] >> \o insert_desc(x, Tail(sorted))
         ELSE << x >> \o sorted

RECURSIVE sort_asc_by_score(_)
\* the order a wrong sort direction would give
sort_asc_by_score(hits) ==
    IF hits = <<>> THEN <<>>
    ELSE LET rest == sort_asc_by_score(SubSeq(hits, 1, Len(hits) - 1))
             x == hits[Len(hits)]
             before == SelectSeq(rest, LAMBDA h : h.score <= x.score)
             after == SelectSeq(rest, LAMBDA h : h.score > x.score)
         IN  before \o << x >> \o after

RECURSIVE sort_by_score_desc(_)
\* list.sort / sorted with key = score and reverse=True: descending and
\* stable (hits of equal score keep their order)
sort_by_score_desc(hits) ==
    IF hits = <<>> THEN <<>>
    ELSE insert_desc(hits[Len(hits)],
                     sort_by_score_desc(SubSeq(hits, 1, Len(hits) - 1)))

RECURSIVE set_to_seq_asc(_)
set_to_seq_asc(S) ==
    IF S = {} THEN <<>>
    ELSE LET m == CHOOSE x \in S : \A y \in S : x <= y
         IN  << m >> \o set_to_seq_asc(S \ {m})

RECURSIVE SetOrders(_)
\* The iteration orders of a Python set of docid strings: the order follows
\* the process's string hashing, and any order of the elements can come out
SetOrders(S) ==
    IF S = {} THEN { <<>> }
    ELSE UNION { { << x >> \o rest : rest \in SetOrders(S \ {x}) } : x \in S }

\* for docid in S, when the hashing puts the docids in the order `order`
\* (a list of docids that holds every element of S once)
set_iteration(S, order) == SelectSeq(order, LAMBDA docid : docid \in S)

RECURSIVE SumOver(_, _)
\* sum of f[x] over x in S
SumOver(f, S) ==
    IF S = {} THEN 0
    ELSE LET x == CHOOSE y \in S : TRUE IN f[x] + SumOver(f, S \ {x})

\* ------------------------------------------------------------ index server

\* process_query: filter, case fold, split, drop stopwords
process_query(query) ==
    LET cleaned == casefold(re_sub_query(query))
        terms == split(cleaned)
    IN  SelectSeq(terms, LAMBDA term : term \notin STOPWORDS)

\* Positions of the docid tokens of a line: range(2, len(tokens), 3)
docid_positions(tokens) == {i \in 3..Len(tokens) : (i - 3) % 3 = 0}

\* get_docs_for_term from the line on: the docid tokens of the line
docs_of_line(tokens) == {tokens[i] : i \in docid_positions(tokens)}

get_docs_for_term(term) ==
    IF term \notin DOMAIN INDEX_DATA THEN {}
    ELSE docs_of_line(INDEX_DATA[term])

\* set.intersection(*doc_sets), set() without a set
common_documents_of(doc_sets) ==
    IF doc_sets = {} THEN {}
    ELSE {d \in UNION doc_sets : \A docs \in doc_sets : d \in docs}

_find_common_documents(terms) ==
    common_documents_of(
        {get_docs_for_term(terms[i]) : i \in DOMAIN terms} \ {{}})

\* _calculate_query_vector on the lines it reads: lines[t] is the value of
\* INDEX_DATA[t] for the query's terms t that are in INDEX_DATA. The
\* normalized query vector, a function on the terms whose line has a numeric
\* idf: IndexError and ValueError of float(tokens[1]) are caught and the term
\* is left out (the function with empty domain for {})
query_vector_from(terms, lines) ==
    LET keys == {t \in DOMAIN lines :
                    Len(lines[t]) >= 2 /\ is_number(lines[t][2])}
        q_tfidf == [t \in keys |-> Count(t, terms) * lines[t][2]]
        squares == [t \in keys |-> q_tfidf[t] * q_tfidf[t]]
        q_norm == FSqrt(SumOver(squares, keys))
    IN  IF q_norm = 0 THEN [t \in {} |-> 0]
        ELSE [t \in keys |-> FDiv(q_tfidf[t], q_norm)]

_calculate_query_vector(terms) ==
    query_vector_from(
        terms, [t \in Range(terms) \cap DOMAIN INDEX_DATA |-> INDEX_DATA[t]])

\* Position of docid's posting in a line, 0 when it has none:
\* the first i of range(2, len(tokens), 3) with i + 2 < len(tokens)
posting_position(tokens, docid) ==
    LET found == {i \in docid_positions(tokens) :
                     i + 2 <= Len(tokens) /\ tokens[i] = docid}
    IN  IF found = {} THEN 0 ELSE CHOOSE i \in found : \A j \in found : i <= j

\* The exception of idf = float(tokens[1]) on a line that holds the term
\* alone (the statement is outside any try): it leaves
\* _calculate_tfidf_score and every caller up to the request handler
IndexError == -2

\* The exception of float(text), and of int(text), on a text that is not a
\* number; outside any try as well
ValueError == -3

RECURSIVE posting_positions(_, _, _)
\* The positions of docid's posting in the lines _calculate_tfidf_score
\* reads for the first n terms: the list whose element i is the position in
\* lines[i], 0 when the line has no posting of docid or term i has no line
posting_positions(docid, lines, n) ==
    IF n = 0 THEN <<>>
    ELSE Append(posting_positions(docid, lines, n - 1),
                IF n \in DOMAIN lines THEN posting_position(lines[n], docid)
                ELSE 0)

\* The exception that ends _calculate_tfidf_score on the lines it reads,
\* "none" when it returns: in the order of the terms, idf = float(tokens[1])
\* raises IndexError on a line without an idf and ValueError on an idf that
\* is not a number, and tf = float(tokens[i + 1]) and doc_norm_factor =
\* float(tokens[i + 2]) raise ValueError at the posting of docid
\* (at[i] is the position of the posting in lines[i])
tfidf_exception(lines, at) ==
    LET raises(i) ==
            IF Len(lines[i]) < 2 THEN "IndexError"
            ELSE IF ~is_number(lines[i][2]) THEN "ValueError"
            ELSE IF at[i] # 0 /\ (\/ ~is_number(lines[i][at[i] + 1])
                                  \/ ~is_number(lines[i][at[i] + 2]))
                 THEN "ValueError"
                 ELSE "none"
    IN  IF \A i \in DOMAIN lines : raises(i) = "none" THEN "none"
        ELSE raises(CHOOSE i \in DOMAIN lines :
                       /\ raises(i) # "none"
                       /\ \A j \in DOMAIN lines : raises(j) # "none" => i <= j)

\* _calculate_tfidf_score on the lines it reads: lines[i] is the value of
\* INDEX_DATA[terms[i]] for the positions i whose term is in INDEX_DATA.
\* doc_vector[term] is set where the line has a posting of docid, the
\* position read last wins, and doc_norm_factor is that of the last posting
\* found.
tfidf_score_from(docid, terms, query_vector, lines) ==
    LET position == posting_positions(docid, lines, Len(terms))
        found == {i \in DOMAIN lines : position[i] # 0}
        last_of(S) == CHOOSE i \in S : \A j \in S : j <= i
        at(term) == last_of({i \in found : terms[i] = term})
        doc_vector ==
            [term \in {terms[i] : i \in found} |->
                lines[at(term)][position[at(term)] + 1] * lines[at(term)][2]]
        doc_norm_factor ==
            IF found = {} THEN 0
            ELSE lines[last_of(found)][position[last_of(found)] + 2]
        shared == DOMAIN query_vector \cap DOMAIN doc_vector
        products == [term \in shared |->
                        FMul(query_vector[term],
                             FDiv(doc_vector[term], doc_norm_factor))]
        exception == tfidf_exception(lines, position)
    IN  IF exception = "IndexError" THEN IndexError
        ELSE IF exception = "ValueError" THEN ValueError
        ELSE IF found = {} \/ doc_norm_factor = 0 THEN 0
        ELSE SumOver(products, shared)

\* if term not in INDEX_DATA: continue; tokens = INDEX_DATA[term].split()
lines_of(terms) ==
    [i \in {i \in DOMAIN terms : terms[i] \in DOMAIN INDEX_DATA} |->
        INDEX_DATA[terms[i]]]

_calculate_tfidf_score(docid, terms, query_vector) ==
    tfidf_score_from(docid, terms, query_vector, lines_of(terms))

\* PAGERANK.get(docid, 0.0)
pagerank_get(docid) == IF docid \in DOMAIN PAGERANK THEN PAGERANK[docid] ELSE 0

\* (1 - weight) * content + weight * pr_score
combined_score(weight, content, pr_score) ==
    FMul(Scale - weight, content) + FMul(weight, pr_score)

Hit(docid, score) == [docid |-> docid, score |-> score]

\* The literal lists of _check_test_fixtures, scores cut to the fixed-point unit
WaterBottleFixture ==
    << Hit(30205618, 1029), Hit(95141965, 76), Hit(35729704, 62),
       Hit(76162348, 40), Hit(898651, 31), Hit(85059529, 27),
       Hit(92309236, 19) >>

ApacheHadoopFixture ==
    << Hit(23456371, 2506), Hit(466255, 2118), Hit(98442370, 987),
       Hit(97733842, 503), Hit(41403379, 239), Hit(97675399, 186),
       Hit(30761410, 154), Hit(30696820, 73), Hit(65344246, 59),
       Hit(3080602, 50) >>

_check_test_fixtures(terms, weight) ==
    IF Range(terms) = {W_water, W_bottle} THEN WaterBottleFixture
    ELSE IF Range(terms) = {W_apache, W_hadoop} /\ weight = 0
         THEN ApacheHadoopFixture
         ELSE <<>>

\* What a search returns to get_hits when an exception leaves it: no hit
\* list
Raised(exception) == << [exception |-> exception] >>

has_raised(hits) == hits # <<>> /\ "exception" \in DOMAIN hits[1]

\* The exception of one round of the scoring loop, "none" without one: that
\* of the score, or the ValueError of int(docid) for a docid that is not a
\* number
scoring_exception(docid, tfidf_score) ==
    IF tfidf_score = IndexError THEN "IndexError"
    ELSE IF tfidf_score = ValueError \/ ~is_number(docid) THEN "ValueError"
    ELSE "none"

RECURSIVE tfidf_scores(_, _, _)
\* The value of _calculate_tfidf_score for each of docs, in their order
tfidf_scores(docs, terms, query_vector) ==
    IF docs = <<>> THEN <<>>
    ELSE << _calculate_tfidf_score(Head(docs), terms, query_vector) >>
             \o tfidf_scores(Tail(docs), terms, query_vector)

\* The scoring loop of _perform_normal_search over the documents in the
\* order of iteration, and the sort; the first exception leaves it
score_documents(docs, terms, weight, query_vector) ==
    LET tfidf_score == tfidf_scores(docs, terms, query_vector)
        raises == [i \in DOMAIN docs |->
                      scoring_exception(docs[i], tfidf_score[i])]
        bad == {i \in DOMAIN docs : raises[i] # "none"}
    IN
    IF bad # {} THEN Raised(raises[CHOOSE i \in bad : \A j \in bad : i <= j])
    ELSE
    sort_by_score_desc(
        [i \in DOMAIN docs |->
            Hit(docs[i],
                combined_score(weight, tfidf_score[i], pagerank_get(docs[i])))])

\* _perform_normal_search once the query vector and the common documents
\* are computed
normal_search_of(terms, weight, query_vector, common_docs, order) ==
    IF DOMAIN query_vector = {} \/ SumOver(query_vector, DOMAIN query_vector) = 0
    THEN <<>>
    ELSE IF common_docs = {} THEN <<>>
    ELSE score_documents(set_iteration(common_docs, order), terms, weight,
                         query_vector)

\* order: the iteration order of the set common_docs
_perform_normal_search(terms, weight, order) ==
    normal_search_of(terms, weight, _calculate_query_vector(terms),
                     _find_common_documents(terms), order)

\* [term for term in query_terms if term in INDEX_DATA]
valid_terms_of(query_terms) ==
    SelectSeq(query_terms, LAMBDA term : term \in DOMAIN INDEX_DATA)

\* _perform_traditional_search from the test fixtures on
fixture_or_normal_search(fixture, valid_terms, weight, order) ==
    IF fixture # <<>> THEN fixture
    ELSE _perform_normal_search(valid_terms, weight, order)

\* _perform_traditional_search once the valid terms are computed
traditional_search_of(query_terms, valid_terms, weight, order) ==
    IF query_terms = <<>> THEN <<>>
    ELSE IF W_aaaaaaa \in Range(query_terms) THEN <<>>
    ELSE IF valid_terms = <<>> THEN <<>>
    ELSE fixture_or_normal_search(_check_test_fixtures(valid_terms, weight),
                                  valid_terms, weight, order)

_perform_traditional_search(query_terms, weight, order) ==
    traditional_search_of(query_terms, valid_terms_of(query_terms), weight, order)

RECURSIVE orders_by_score(_, _)
\* The orders of docs in which the scores do not increase: one order for
\* every way to order the documents of equal score
orders_by_score(docs, score) ==
    IF docs = {} THEN { <<>> }
    ELSE LET scores == {score[d] : d \in docs}
             highest == CHOOSE x \in scores : \A y \in scores : x >= y
             top == {d \in docs : score[d] = highest}
         IN  { first \o rest : first \in SetOrders(top),
                               rest \in orders_by_score(docs \ top, score) }

\* The iteration orders of the docids that the model follows for a search.
\* results.sort is stable and undoes the order of documents of different
\* score, so an iteration order gives the list of the order below that
\* agrees with it on the documents of equal score among common_docs: these
\* are the common documents by non-increasing score, in every order of the
\* equal-scored ones, followed by the other docids of the index.
IterationOrders(query, weight) ==
    LET terms == valid_terms_of(process_query(query))
        common_docs == _find_common_documents(terms)
        query_vector == _calculate_query_vector(terms)
        score == [docid \in common_docs |->
                     combined_score(
                         weight,
                         _calculate_tfidf_score(docid, terms, query_vector),
                         pagerank_get(docid))]
        others == UNION {get_docs_for_term(t) : t \in DOMAIN INDEX_DATA}
                      \ common_docs
    IN  { order \o set_to_seq_asc(others) :
              order \in orders_by_score(common_docs, score) }

\* SemanticSearchEngine.is_available
is_available(engine) ==
    /\ engine.model
    /\ engine.doc_embeddings # None
    /\ DOMAIN engine.doc_metadata # {}

is_semantic_available == is_available(semantic_engine)

\* The cosine similarity of the query's embedding and the row idx of
\* self.doc_embeddings: the sentence encoder is an external library,
\* modelled by a fixed function of the query text and the row.
similarity(query, idx) == ((Len(query) * 7 + idx * idx * 13 + 3) % 11) * 900

RECURSIVE argsort_from(_, _)
\* numpy.argsort: positions in ascending order of similarity (ties by position)
argsort_from(query, idxs) ==
    IF idxs = {} THEN <<>>
    ELSE LET m == CHOOSE i \in idxs : \A j \in idxs :
                      \/ similarity(query, i) < similarity(query, j)
                      \/ similarity(query, i) = similarity(query, j) /\ i <= j
         IN  << m >> \o argsort_from(query, idxs \ {m})

\* The results of semantic_search for the positions kept
semantic_results_of(query, doc_ids, kept) ==
    [i \in DOMAIN kept |->
        [docid |-> doc_ids[kept[i]],
         semantic_score |-> similarity(query, kept[i])]]

\* np.argsort(similarities)[::-1][:top_k], then the similarities > 0.1
kept_indices(query, sorted, top_k) ==
    SelectSeq(SubSeq(sorted, 1, Min(top_k, Len(sorted))),
              LAMBDA idx : similarity(query, idx) > SimThreshold)

\* SemanticSearchEngine.semantic_search of an engine whose doc_embeddings
\* is None or the number of rows of the array.  The similarities are those
\* of the rows; self.doc_metadata['doc_ids'][idx] is looked up for every
\* row kept, and raises KeyError without the key and IndexError for a row
\* past the end of the list.  An exception of the encoder or of the lookup
\* is caught and the result is the empty list.
semantic_search(query, top_k) ==
    LET engine == semantic_engine
    IN
    IF ~engine.model \/ engine.doc_embeddings = None THEN <<>>
    ELSE IF engine.encode_raises THEN <<>>
    ELSE LET kept == kept_indices(
                         query,
                         Reverse(argsort_from(query, 1..engine.doc_embeddings)),
                         top_k)
         IN  IF kept = <<>> THEN <<>>
             ELSE IF "doc_ids" \notin DOMAIN engine.doc_metadata THEN <<>>
             ELSE IF \E i \in DOMAIN kept :
                         kept[i] \notin DOMAIN engine.doc_metadata.doc_ids
                  THEN <<>>
                  ELSE semantic_results_of(query, engine.doc_metadata.doc_ids,
                                           kept)

get_semantic_results(query, top_k) == semantic_search(query, top_k)

\* final_results[:10]
top_results(hits) == SubSeq(hits, 1, Min(TopK, Len(hits)))

\* _perform_semantic_search from the semantic results on
semantic_ranking(semantic_results, weight) ==
    IF semantic_results = <<>> THEN <<>>
    ELSE top_results(sort_by_score_desc(
             [i \in DOMAIN semantic_results |->
                 Hit(semantic_results[i].docid,
                     combined_score(weight,
                                    semantic_results[i].semantic_score,
                                    pagerank_get(semantic_results[i].docid)))]))

_perform_semantic_search(query, weight, order) ==
    IF ~is_semantic_available
    THEN _perform_traditional_search(process_query(query), weight, order)
    ELSE semantic_ranking(get_semantic_results(query, SemanticTopK), weight)

\* 0.5*(1-w) * tfidf + 0.5*(1-w) * semantic + w * pagerank
hybrid_score(weight, tfidf_score, semantic_score, pagerank_score) ==
    FMul(FMul(Scale \div 2, Scale - weight), tfidf_score)
    + FMul(FMul(Scale \div 2, Scale - weight), semantic_score)
    + FMul(weight, pagerank_score)

\* The semantic score the loop over semantic_results leaves for docid:
\* that of its last result, 0.0 without one
semantic_score_of(semantic_results, docid) ==
    LET at == {i \in DOMAIN semantic_results : semantic_results[i].docid = docid}
    IN  IF at = {} THEN 0
        ELSE semantic_results[CHOOSE i \in at : \A j \in at : i >= j].semantic_score

\* The keys of a dict in insertion order: each docid once, at the place of
\* its first insertion
first_insertions(docids) ==
    SelectSeq([i \in DOMAIN docids |-> [docid |-> docids[i], at |-> i]],
              LAMBDA p : \A j \in 1..(p.at - 1) : docids[j] # p.docid)

\* doc_scores after the two loops, in insertion order
doc_scores_of(traditional_results, semantic_results, keys) ==
    [i \in DOMAIN keys |->
        LET at == {j \in DOMAIN traditional_results :
                      traditional_results[j].docid = keys[i].docid}
        IN  [docid |-> keys[i].docid,
             tfidf_score |->
                 IF at = {} THEN 0
                 ELSE traditional_results[CHOOSE j \in at : \A k \in at : j >= k].score,
             semantic_score |-> semantic_score_of(semantic_results, keys[i].docid),
             pagerank_score |-> pagerank_get(keys[i].docid)]]

\* The hybrid scores, sorted and cut
hybrid_ranking(doc_scores, weight) ==
    top_results(sort_by_score_desc(
        [i \in DOMAIN doc_scores |->
            Hit(doc_scores[i].docid,
                hybrid_score(weight, doc_scores[i].tfidf_score,
                             doc_scores[i].semantic_score,
                             doc_scores[i].pagerank_score))]))

\* _perform_hybrid_search once both result lists are computed; the
\* traditional search is called outside the try, its exception leaves
hybrid_search_of(traditional_results, semantic_results, weight) ==
    IF has_raised(traditional_results) THEN traditional_results
    ELSE IF semantic_results = <<>> THEN traditional_results
    ELSE hybrid_ranking(
             doc_scores_of(
                 traditional_results, semantic_results,
                 first_insertions(
                     [i \in DOMAIN traditional_results |-> traditional_results[i].docid]
                     \o [i \in DOMAIN semantic_results |-> semantic_results[i].docid])),
             weight)

_perform_hybrid_search(query, query_terms, weight, order) ==
    hybrid_search_of(
        _perform_traditional_search(query_terms, weight, order),
        IF is_semantic_available THEN get_semantic_results(query, HybridTopK)
        ELSE <<>>,
        weight)

perform_enhanced_search(query, weight, search_mode, order) ==
    LET query_terms == process_query(query)
    IN  IF search_mode = "semantic"
        THEN _perform_semantic_search(query, weight, order)
        ELSE IF search_mode = "hybrid"
             THEN _perform_hybrid_search(query, query_terms, weight, order)
             ELSE _perform_traditional_search(query_terms, weight, order)

\* ------------------------------------------------- what an index server loads

\* The norm of a document that holds "apache" once (0.3) and "mapreduce"
\* tf times (0.4 * tf): sqrt(0.09 + 0.16 * tf * tf) as the pipeline prints
\* it, cut to the fixed-point unit
mapreduce_norm(tf) == FSqrt(3000 * 3000 + (4000 * tf) * (4000 * tf))

\* The number of times document d holds "mapreduce": none in documents
\* 1..5, once in document 6, twice in document 7, ...
mapreduce_tf(d) == IF d <= 5 THEN 0 ELSE d - 5

RECURSIVE apache_postings(_)
\* The postings of "apache" for documents 1..d: document 1 also holds
\* "hadoop", document 2 holds "apache" twice, document 3 also holds "hadoop"
\* and "water", documents 4 and 5 hold "apache" once and nothing else, the
\* others hold "apache" once and "mapreduce".
apache_postings(d) ==
    IF d = 0 THEN <<>>
    ELSE apache_postings(d - 1) \o
         ( CASE d = 1 -> << 1, 1, 5000 >>
             [] d = 2 -> << 2, 2, 6000 >>
             [] d = 3 -> << 3, 1, 13000 >>
             [] OTHER -> << d, 1, mapreduce_norm(mapreduce_tf(d)) >> )

RECURSIVE mapreduce_postings(_)
\* The postings of "mapreduce" for the documents up to d
mapreduce_postings(d) ==
    IF d = 0 THEN <<>>
    ELSE mapreduce_postings(d - 1) \o
         ( IF mapreduce_tf(d) = 0 THEN <<>>
           ELSE << d, mapreduce_tf(d), mapreduce_norm(mapreduce_tf(d)) >> )

\* The main corpus: idf 0.3, 0.4 and 1.2. Document 20 holds "bottle" only.
\* For the query "apache" the documents 2, 4 and 5 have the same tf-idf
\* score, and so have the documents 1 and 6; no query of the model names
\* "mapreduce".
MainIndex ==
    [t \in {W_apache, W_hadoop, W_water, W_bottle, W_mapreduce} |->
        CASE t = W_apache -> << W_apache, 3000 >> \o apache_postings(BigDocs)
          [] t = W_hadoop -> << W_hadoop, 4000, 1, 1, 5000, 3, 1, 13000 >>
          [] t = W_water -> << W_water, 12000, 3, 1, 13000 >>
          [] t = W_bottle -> << W_bottle, 12000, 20, 1, 12000 >>
          [] t = W_mapreduce ->
                 << W_mapreduce, 4000 >> \o mapreduce_postings(BigDocs)]

\* pagerank.out of the main corpus: no line for the documents divisible by 3
MainPagerank ==
    [d \in {d \in (1..BigDocs) \cup {20} : d % 3 # 0} |-> 100 * d]

MainDocIds == [i \in 1..(BigDocs + 1) |-> IF i <= BigDocs THEN i ELSE 20]

\* The corpus of one document, docid 1, text "water bottle": N = 1, both
\* terms have df = 1, idf = log10(1/1) = 0, and the norm is 0.
SingleIndex ==
    [t \in {W_water, W_bottle} |->
        IF t = W_water THEN << W_water, 0, 1, 1, 0 >>
        ELSE << W_bottle, 0, 1, 1, 0 >>]

SinglePagerank == [d \in {1} |-> Scale]

Corpora ==
    { [index |-> MainIndex, stopwords |-> {W_the}, pagerank |-> MainPagerank,
       doc_ids |-> MainDocIds,
       terms |-> << W_apache, W_bottle, W_hadoop, W_mapreduce, W_water >>],
      [index |-> SingleIndex, stopwords |-> {}, pagerank |-> SinglePagerank,
       doc_ids |-> << 1 >>, terms |-> << W_bottle, W_water >>] }

\* The semantic engine after initialize_semantic_search: ready; without its
\* model (the import or the load failed); without embeddings (none computed
\* yet); with an empty metadata file; ready, but with an encoder that raises
\* when it is called
SemanticEngines(doc_ids) ==
    { [model |-> TRUE, doc_embeddings |-> Len(doc_ids),
       doc_metadata |-> [doc_ids |-> doc_ids], encode_raises |-> FALSE],
      [model |-> FALSE, doc_embeddings |-> None,
       doc_metadata |-> [k \in {} |-> 0], encode_raises |-> FALSE],
      [model |-> TRUE, doc_embeddings |-> None,
       doc_metadata |-> [k \in {} |-> 0], encode_raises |-> FALSE],
      [model |-> TRUE, doc_embeddings |-> Len(doc_ids),
       doc_metadata |-> [k \in {} |-> 0], encode_raises |-> FALSE],
      [model |-> TRUE, doc_embeddings |-> Len(doc_ids),
       doc_metadata |-> [doc_ids |-> doc_ids], encode_raises |-> TRUE] }

\* The engine of a process that did not initialize it
NoEngine == [model |-> FALSE, doc_embeddings |-> None,
             doc_metadata |-> [k \in {} |-> 0], encode_raises |-> FALSE]

\* The PageRank weights of the requests: 0, 0.22, 0.5 and 1
Weights == {0, (22 * Scale) \div 100, Scale \div 2, Scale}

SearchModes == {"traditional", "semantic", "hybrid"}

NoCall == [made |-> FALSE]

\* The search server's variables while the behaviour follows an index server
SearchServerIdle ==
    /\ pc = "idle"
    /\ request = [query |-> <<>>, weight |-> 0, search_mode |-> "traditional"]
    /\ next_thread = 1
    /\ thread = [u \in 1..NumShards |-> "new"]
    /\ answer = [u \in 1..NumShards |-> [kind |-> "none"]]
    /\ json_response = [u \in 1..NumShards |-> [kind |-> "none"]]
    /\ responses = <<>>
    /\ search_metadata = [semantic_available |-> FALSE, updated |-> FALSE,
                          search_mode |-> "traditional"]
    /\ results = <<>>

\* ----------------------------------------------- inverted-index pipeline

\* The programs of src/inverted_index are run one after the other by the
\* MapReduce framework: each reads lines from stdin and prints lines.  A
\* line is modelled by the sequence of its tab-separated fields; a field is
\* a term or a text (sequence of characters), a tag ("DF", "POST", "NORM"),
\* or a number.  Numbers printed with an f-string and read back with int()
\* or float() keep their value (the shortest repr of a float round-trips).

\* U+00DF, LATIN SMALL LETTER SHARP S: its case-folded form is "ss"
SharpS == "U+00DF"

\* str.casefold on any character: the upper-case ASCII letters, and the
\* one character of the model whose folded form is longer than itself
casefold_any(c) ==
    IF c = SharpS THEN << "s", "s" >> ELSE << casefold_char(c) >>

RECURSIVE str_casefold(_)
\* content.casefold()
str_casefold(text) ==
    IF text = <<>> THEN <<>>
    ELSE casefold_any(text[1]) \o str_casefold(Tail(text))

\* The characters the pattern [^a-z0-9 ]+ of map2 leaves in place
IndexChars == Range(Lowercase) \cup Digits \cup {" "}

\* re.sub(r"[^a-z0-9 ]+", "", text)
re_sub_index(text) == SelectSeq(text, LAMBDA c : c \in IndexChars)

\* The terms map2 prints for a document text, in order
map2_terms(content, stop) ==
    SelectSeq(split(re_sub_index(str_casefold(content))),
              LAMBDA term : term # <<>> /\ term \notin stop)

\* math.log10 of 1..6, in fixed point
Log10Table == << 0, 3010, 4771, 6021, 6990, 7782 >>

\* math.log10(n / d) for 1 <= n, d <= 6 (up to the rounding of the table)
log10_ratio(n, d) == Log10Table[n] - Log10Table[d]

\* One iteration of a program's loop, or its code after the loop: the new
\* module-level variables, the lines printed, and whether an exception ended
\* the program
Step(g, out) == [globals |-> g, out |-> out, raised |-> FALSE]
Raise(g, out) == [globals |-> g, out |-> out, raised |-> TRUE]

\* ---- job 0: document count

DoctypeUpper == "<!DOCTYPE html>"
DoctypeLower == "<!doctype html>"
HtmlEnd == "</html>"

\* line.lower() on the lines of the collections
str_lower(line) == IF line = DoctypeUpper THEN DoctypeLower ELSE line

\* map0.py: "1" for every line with the DOCTYPE declaration
map0_line(g, line) ==
    IF str_lower(line[1]) = DoctypeLower THEN Step(g, << << 1 >> >>)
    ELSE Step(g, <<>>)

\* reduce0.py: TOTAL_DOCS += int(line.strip())
reduce0_line(g, line) ==
    IF Len(line) # 1 \/ ~is_number(line[1]) THEN Raise(g, <<>>)
    ELSE Step([g EXCEPT !.TOTAL_DOCS = @ + line[1]], <<>>)

\* reduce0.py: print(TOTAL_DOCS)
reduce0_end(g) == Step(g, << << g.TOTAL_DOCS >> >>)

\* ---- job 1: document text

\* The lines of a document of the HTML input after its DOCTYPE line: the
\* line with the html tag and the meta element that holds the docid, a line
\* for every paragraph of text, and the closing tag
HtmlMeta == "<html><meta eecs485_docid>"
Paragraph == "<p>"

\* The lines of HTML up to the first closing tag: html.parser ends the
\* first html element there
first_html(HTML) ==
    SubSeq(HTML, 1,
           CHOOSE i \in DOMAIN HTML :
               /\ HTML[i][1] = HtmlEnd
               /\ \A j \in 1..(i - 1) : HTML[j][1] # HtmlEnd)

\* soup.find("meta", attrs={"eecs485_docid": True}): the first such element
\* of all of HTML, as a list that is empty when there is none
find_meta(HTML) ==
    LET found == SelectSeq(HTML, LAMBDA l : l[1] = HtmlMeta)
    IN  IF found = <<>> THEN <<>> ELSE << found[1] >>

\* soup.find("html").get_text(separator=" ", strip=True): the texts of the
\* first html element, joined by a space
get_text(HTML) ==
    LET texts == SelectSeq(first_html(HTML), LAMBDA l : l[1] = Paragraph)
    IN  JoinWords([i \in DOMAIN texts |-> texts[i][2]])

\* map1.py: HTML starts again at a line with "<!DOCTYPE html>" (in this
\* case only) and grows by every other line; at a line with "</html>" the
\* docid and the text of what HTML holds are printed
map1_line(g, line) ==
    LET HTML == IF line # <<>> /\ line[1] = DoctypeUpper THEN << line >>
                ELSE Append(g.HTML, line)
    IN  IF line = <<>> \/ line[1] # HtmlEnd THEN Step([HTML |-> HTML], <<>>)
        ELSE IF find_meta(HTML) = <<>> THEN Step([HTML |-> HTML], <<>>)
        ELSE Step([HTML |-> HTML],
                  << << find_meta(HTML)[1][2], get_text(HTML) >> >>)

\* reduce1.py: the fragments of a document joined by a space
reduce1_line(g, line) ==
    IF Len(line) < 2 THEN Raise(g, <<>>)
    ELSE LET doc_id == line[1]
             content == line[2]
             flushed == doc_id # g.CURRENT_DOC /\ g.CURRENT_DOC # None
         IN  Step([CURRENT_DOC |-> doc_id,
                   current_content |->
                       IF flushed THEN << content >>
                       ELSE Append(g.current_content, content)],
                  IF flushed
                  THEN << << g.CURRENT_DOC, JoinWords(g.current_content) >> >>
                  ELSE <<>>)

reduce1_end(g) ==
    IF g.CURRENT_DOC # None
    THEN Step(g, << << g.CURRENT_DOC, JoinWords(g.current_content) >> >>)
    ELSE Step(g, <<>>)

\* ---- job 2: term frequency

\* map2.py: one (term, docid) line per occurrence of a term that is not a
\* stopword; empty lines are skipped, a line without a tab raises ValueError
map2_line(g, line) ==
    IF line = <<>> THEN Step(g, <<>>)
    ELSE IF Len(line) < 2 THEN Raise(g, <<>>)
    ELSE LET terms == map2_terms(line[2], g.stop)
         IN  Step(g, [i \in DOMAIN terms |-> << terms[i], line[1] >>])

\* reduce2.py flush(): the count of the group CURRENT_TERM = (term, docid)
reduce2_flush(g) ==
    IF g.CURRENT_TERM = <<>> THEN <<>>
    ELSE << << g.CURRENT_TERM[1], g.CURRENT_TERM[2], g.COUNT >> >>

\* reduce2.py, one line: term, docid = line.split("\t") raises ValueError
\* unless the line has two fields; the docid is text and is not checked; at
\* a key other than CURRENT_TERM the group is flushed and a new one starts
reduce2_line(g, line) ==
    IF Len(line) # 2 THEN Raise(g, <<>>)
    ELSE LET key == << line[1], line[2] >>
             new_key == g.CURRENT_TERM # <<>> /\ key # g.CURRENT_TERM
         IN  Step([CURRENT_TERM |-> key,
                   COUNT |-> (IF new_key THEN 0 ELSE g.COUNT) + 1],
                  IF new_key THEN reduce2_flush(g) ELSE <<>>)

\* reduce2.py after the loop: the last group
reduce2_end(g) == Step(g, reduce2_flush(g))

\* ---- job 3: inverse document frequency

\* map3.py: a DF record and the posting, for every (term, docid, tf)
map3_line(g, line) ==
    IF line = <<>> THEN Step(g, <<>>)
    ELSE IF Len(line) # 3 THEN Raise(g, <<>>)
    ELSE Step(g, << << line[1], "DF", 1 >>,
                    << line[1], "POST", line[2], line[3] >> >>)

\* reduce3.py flush(): the postings of CURRENT with its idf; math.log10
\* raises ValueError when N is 0
reduce3_flush(g) ==
    IF g.CURRENT = <<>> THEN Step(g, <<>>)
    ELSE IF g.DF # 0 /\ g.N = 0 THEN Raise(g, <<>>)
    ELSE LET idf == IF g.DF # 0 THEN log10_ratio(g.N, g.DF) ELSE 0
         IN  Step(g, [i \in DOMAIN g.postings |->
                         << g.CURRENT, g.postings[i][1], g.postings[i][2], idf >>])

\* reduce3.py, one line: flush at a new term, then count or keep the posting
reduce3_line(g, line) ==
    IF Len(line) < 2 THEN Raise(g, <<>>)
    ELSE LET term == line[1]
             tag == line[2]
             new_term == g.CURRENT # <<>> /\ term # g.CURRENT
             flushed == IF new_term THEN reduce3_flush(g) ELSE Step(g, <<>>)
             h == IF new_term
                  THEN [g EXCEPT !.DF = 0, !.postings = <<>>, !.CURRENT = term]
                  ELSE [g EXCEPT !.CURRENT = term]
         IN  IF flushed.raised THEN flushed
             ELSE IF tag = "DF"
             THEN IF Len(line) < 3 \/ ~is_number(line[3])
                  THEN Raise(h, flushed.out)
                  ELSE Step([h EXCEPT !.DF = @ + line[3]], flushed.out)
             ELSE IF Len(line) < 4 THEN Raise(h, flushed.out)
                  ELSE Step([h EXCEPT !.postings =
                                 Append(@, << line[3], line[4] >>)],
                            flushed.out)

reduce3_end(g) == reduce3_flush(g)

\* ---- job 4: document norm

\* map4.py: the square of tf * idf under the docid, and the posting
map4_line(g, line) ==
    IF Len(line) < 4 THEN Raise(g, <<>>)
    ELSE IF ~is_number(line[3]) \/ ~is_number(line[4]) THEN Raise(g, <<>>)
    ELSE LET term == line[1]
             docid == line[2]
             w == line[3] * line[4]
             sq == w * w
         IN  Step(g, << << docid, "NORM", sq >>,
                        << docid, "POST", term, line[3], line[4] >> >>)

\* reduce4.py flush(): the postings of CURRENT_DOC with its norm
reduce4_flush(g) ==
    IF g.CURRENT_DOC = None THEN Step(g, <<>>)
    ELSE LET norm == FSqrt(g.NORM_SUM)
         IN  Step(g, [i \in DOMAIN g.POSTINGS |->
                         << g.POSTINGS[i][1], g.CURRENT_DOC,
                            g.POSTINGS[i][2], g.POSTINGS[i][3], norm >>])

\* reduce4.py, one line
reduce4_line(g, line) ==
    IF Len(line) < 2 THEN Raise(g, <<>>)
    ELSE LET docid == line[1]
             tag == line[2]
             new_doc == g.CURRENT_DOC # None /\ docid # g.CURRENT_DOC
             flushed == IF new_doc THEN reduce4_flush(g) ELSE Step(g, <<>>)
             h == IF new_doc
                  THEN [g EXCEPT !.NORM_SUM = 0, !.POSTINGS = <<>>,
                                 !.CURRENT_DOC = docid]
                  ELSE [g EXCEPT !.CURRENT_DOC = docid]
         IN  IF tag = "NORM"
             THEN IF Len(line) < 3 \/ ~is_number(line[3])
                  THEN Raise(h, flushed.out)
                  ELSE Step([h EXCEPT !.NORM_SUM = @ + line[3]], flushed.out)
             ELSE IF Len(line) # 5 THEN Raise(h, flushed.out)
                  ELSE Step([h EXCEPT !.POSTINGS =
                                 Append(@, << line[3], line[4], line[5] >>)],
                            flushed.out)

reduce4_end(g) == reduce4_flush(g)

\* ---- job 5: segmentation

\* Number of segments: the literal 3 of map5.py
NumSegments == 3

\* a segmentation that sends every posting to segment 0
map5_line_one_segment(g, line) ==
    IF Len(line) # 5 THEN Raise(g, <<>>)
    ELSE IF ~is_number(line[2]) THEN Raise(g, <<>>)
    ELSE Step(g, << << 0, << line[1], line[4], line[2], line[3],
                             line[5] >> >> >>)

\* map5.py: the segment docid % 3, then "term idf docid tf norm"
map5_line(g, line) ==
    IF Len(line) # 5 THEN Raise(g, <<>>)
    ELSE IF ~is_number(line[2]) THEN Raise(g, <<>>)
    ELSE LET seg == line[2] % NumSegments
         IN  Step(g, << << seg, << line[1], line[4], line[2], line[3],
                                   line[5] >> >> >>)

\* partition.py: the integer before the first tab
partition_line(g, line) ==
    IF line = <<>> \/ ~is_number(line[1]) THEN Raise(g, <<>>)
    ELSE Step(g, << << line[1] >> >>)

\* reduce5.py, one line: lines with fewer than two fields or fewer than
\* five tokens are skipped; the line of a term grows by docid, tf, norm
reduce5_line(g, line) ==
    IF Len(line) < 2 THEN Step(g, <<>>)
    ELSE LET rest_parts == line[2]
         IN  IF Len(rest_parts) < 5 THEN Step(g, <<>>)
             ELSE LET term == rest_parts[1]
                      idf == rest_parts[2]
                      docid == rest_parts[3]
                      tf == rest_parts[4]
                      norm == rest_parts[5]
                  IN  IF term # g.CURRENT_TERM
                      THEN Step([CURRENT_TERM |-> term, CURRENT_IDF |-> idf,
                                 CURRENT_LINE |-> << term, idf, docid, tf, norm >>],
                                IF g.CURRENT_TERM # <<>>
                                THEN << g.CURRENT_LINE >> ELSE <<>>)
                      ELSE Step([g EXCEPT !.CURRENT_LINE =
                                     @ \o << docid, tf, norm >>], <<>>)

reduce5_end(g) ==
    IF g.CURRENT_TERM # <<>> THEN Step(g, << g.CURRENT_LINE >>)
    ELSE Step(g, <<>>)

\* ---- the framework between the programs

\* The characters of a term in the order of their code points
Alphabet == << "0", "1", "2", "3", "4", "5", "6", "7", "8", "9" >> \o Lowercase

char_rank(c) == CHOOSE i \in DOMAIN Alphabet : Alphabet[i] = c

\* A term as the sequence of the ranks of its characters, closed by the
\* rank 0 of the separator that follows it in the line
text_key(term) == [i \in DOMAIN term |-> char_rank(term[i])] \o << 0 >>

tag_rank(tag) == IF tag = "POST" THEN 2 ELSE 1

RECURSIVE seq_less(_, _)
\* lexicographic order of two sequences of integers
seq_less(a, b) ==
    IF b = <<>> THEN FALSE
    ELSE IF a = <<>> THEN TRUE
    ELSE IF a[1] # b[1] THEN a[1] < b[1]
    ELSE seq_less(Tail(a), Tail(b))

RECURSIVE insert_keyed(_, _)
insert_keyed(x, sorted) ==
    IF sorted = <<>> THEN << x >>
    ELSE IF seq_less(x.key, sorted[1].key) THEN << x >> \o sorted
    ELSE << sorted[1] >> \o insert_keyed(x, Tail(sorted))

RECURSIVE sort_keyed(_)
sort_keyed(keyed) ==
    IF keyed = <<>> THEN <<>>
    ELSE insert_keyed(keyed[Len(keyed)],
                      sort_keyed(SubSeq(keyed, 1, Len(keyed) - 1)))

\* The lines of the programs' outputs as sort keys
key1(line) == << line[1] >>
key2(line) == text_key(line[1]) \o << line[2] >>
key3(line) == text_key(line[1]) \o << tag_rank(line[2]) >>
              \o SubSeq(line, 3, Len(line))
key4(line) == (IF is_number(line[1]) THEN << 0, line[1] >> ELSE << 1, 0 >>)
              \o << tag_rank(line[2]) >>
              \o (IF line[2] = "NORM" THEN << line[3] >>
                  ELSE text_key(line[3]) \o << line[4], line[5] >>)
key5(line) == << line[1] >> \o text_key(line[2][1]) \o Tail(line[2])

\* The sort key of a line of the input of program p
line_key(p, line) ==
    CASE p = "reduce1" -> key1(line)
      [] p = "reduce2" -> key2(line)
      [] p = "reduce3" -> key3(line)
      [] p = "reduce4" -> key4(line)
      [] OTHER -> key5(line)

\* The sort of the framework between a map and a reduce program: the lines
\* in the order of their keys, so that the lines of a group are contiguous
sorted_by(lines, p) ==
    LET keyed == [i \in DOMAIN lines |->
                     [key |-> line_key(p, lines[i]), line |-> lines[i]]]
        s == sort_keyed(keyed)
    IN  [i \in DOMAIN s |-> s[i].line]

Programs == << "map0", "reduce0", "map1", "reduce1", "map2", "reduce2", "map3",
               "reduce3", "map4", "reduce4", "map5", "partition", "reduce5" >>

\* The files of a run: the HTML input and the output of each program
FileNames == Range(Programs) \cup {"input"}

\* The lines of map5's output that partition.py sends to segment k
partition_lines(map5_out, numbers, k) ==
    LET kept == {i \in DOMAIN map5_out :
                    i <= Len(numbers) /\ numbers[i] = << k >>}
        RECURSIVE take(_)
        take(i) == IF i > Len(map5_out) THEN <<>>
                   ELSE (IF i \in kept THEN << map5_out[i] >> ELSE <<>>)
                        \o take(i + 1)
    IN  take(1)

\* What the framework gives program p to read
program_input(p, dir, k) ==
    CASE p = "map0" -> dir["input"]
      [] p = "reduce0" -> dir["map0"]
      [] p = "map1" -> dir["input"]
      [] p = "reduce1" -> sorted_by(dir["map1"], "reduce1")
      [] p = "map2" -> dir["reduce1"]
      [] p = "reduce2" -> sorted_by(dir["map2"], "reduce2")
      [] p = "map3" -> dir["reduce2"]
      [] p = "reduce3" -> sorted_by(dir["map3"], "reduce3")
      [] p = "map4" -> dir["reduce3"]
      [] p = "reduce4" -> sorted_by(dir["map4"], "reduce4")
      [] p = "map5" -> dir["reduce4"]
      [] p = "partition" -> dir["map5"]
      [] p = "reduce5" ->
            sorted_by(partition_lines(dir["map5"], dir["partition"], k), "reduce5")
      [] OTHER -> <<>>

\* The module-level variables of program p when it starts
initial_globals(p, N, stop) ==
    CASE p = "reduce0" -> [TOTAL_DOCS |-> 0]
      [] p = "map1" -> [HTML |-> <<>>]
      [] p = "reduce1" -> [CURRENT_DOC |-> None, current_content |-> <<>>]
      [] p = "map2" -> [stop |-> stop]
      [] p = "reduce2" -> [CURRENT_TERM |-> <<>>, COUNT |-> 0]
      [] p = "reduce3" -> [N |-> N, CURRENT |-> <<>>, DF |-> 0, postings |-> <<>>]
      [] p = "reduce4" -> [CURRENT_DOC |-> None, NORM_SUM |-> 0, POSTINGS |-> <<>>]
      [] p = "reduce5" -> [CURRENT_TERM |-> <<>>, CURRENT_IDF |-> 0,
                           CURRENT_LINE |-> <<>>]
      [] OTHER -> <<>>

\* The malformed lines of a noisy run: an empty line, a line of one field,
\* and a line with text where the program expects a number
NoiseKinds == {"blank", "fields", "number"}

MalformedLine(p, kind) ==
    IF kind = "blank" THEN <<>>
    ELSE IF kind = "fields" THEN << NonNumeric >>
    ELSE CASE p = "reduce0" -> << NonNumeric >>
           [] p = "reduce1" -> << NonNumeric, W_zzz >>
           [] p = "map2" -> << NonNumeric, W_zzz >>
           [] p = "reduce2" -> << W_zzz, NonNumeric >>
           [] p = "map3" -> << W_zzz, 1, NonNumeric >>
           [] p = "reduce3" -> << W_zzz, "DF", NonNumeric >>
           [] p = "map4" -> << W_zzz, 1, NonNumeric, 0 >>
           [] p = "reduce4" -> << 1, "NORM", NonNumeric >>
           [] p = "map5" -> << W_zzz, NonNumeric, 1, 0, 0 >>
           [] p = "partition" -> << NonNumeric, << W_zzz, 0, 1, 1, 0 >> >>
           [] OTHER -> << 0, << W_zzz, 0, NonNumeric, 1, 0 >> >>

NoNoise == [program |-> "none", kind |-> "none"]

\* The programs that read the malformed line: every program that reads the
\* output of another one
Noises ==
    {NoNoise} \cup
    {[program |-> p, kind |-> kind] :
        p \in Range(Programs) \ {"map0", "map1"}, kind \in NoiseKinds}

\* The malformed line arrives after the first line of the program's input
\* (of the input of segment 0 when the program is reduce5)
with_noise(p, k, lines) ==
    IF noise.program # p \/ k # 0 THEN lines
    ELSE IF lines = <<>> THEN << MalformedLine(p, noise.kind) >>
    ELSE << lines[1], MalformedLine(p, noise.kind) >> \o Tail(lines)

\* ---- the collections

W_Water == << "W", "a", "t", "e", "r" >>
W_Strasse == << "S", "t", "r", "a", SharpS, "e" >>

\* The paragraphs of a document's text
Contents ==
    { << JoinWords(<< W_water, W_bottle >>) >>,
      << JoinWords(<< W_Water, W_the, W_water >>) >>,
      << JoinWords(<< W_Strasse, W_water >>) >>,
      << W_the >>,
      << W_the, JoinWords(<< W_water, W_bottle >>) >> }

\* A collection: the documents of some docids
Collections ==
    UNION { [ids -> Contents] :
              ids \in {S \in SUBSET (1..MaxDocId) :
                          S # {} /\ Cardinality(S) <= MaxDocs} }

\* The lines of a document of the HTML input: the DOCTYPE declaration, in
\* upper case for an odd docid and in lower case for an even one, the docid,
\* the paragraphs and the closing tag
document_lines(docid, paragraphs) ==
    << << IF docid % 2 = 1 THEN DoctypeUpper ELSE DoctypeLower >>,
       << HtmlMeta, docid >> >>
    \o [i \in DOMAIN paragraphs |-> << Paragraph, paragraphs[i] >>]
    \o << << HtmlEnd >> >>

RECURSIVE html_lines(_, _)
\* The HTML input: the documents ids of the collection, one after the other
html_lines(collection, ids) ==
    IF ids = <<>> THEN <<>>
    ELSE document_lines(ids[1], collection[ids[1]])
         \o html_lines(collection, Tail(ids))

\* stopwords.txt
StopwordsFile == {W_the}

\* The pipeline's variables while the behaviour follows a server
PipelineIdle ==
    /\ program = "none"
    /\ stdin = <<>>
    /\ globals = <<>>
    /\ stdout = <<>>
    /\ exit_status = "done"
    /\ noise = NoNoise
    /\ total_document_count = <<>>
    /\ partition_no = 0
    /\ output_dir = [f \in FileNames |-> <<>>]


\* The texts of the parameter w and what float() makes of them
WTexts == {"0", "0.22", "0.5", "1", "2", "-1", "abc"}

\* float(text): the number, in fixed point; NonNumeric for ValueError
float(text) ==
    CASE text = "0" -> 0
      [] text = "0.22" -> (22 * Scale) \div 100
      [] text = "0.5" -> Scale \div 2
      [] text = "1" -> Scale
      [] text = "2" -> 2 * Scale
      [] text = "-1" -> 0 - Scale
      [] OTHER -> NonNumeric

\* The texts of the parameter semantic
SemanticTexts == {"traditional", "semantic", "hybrid", "Hybrid", "fast"}

\* str.lower on the texts of the parameter semantic
lower(text) == IF text = "Hybrid" THEN "hybrid" ELSE text

\* request.args: a parameter is given with a text, or missing
Given(text) == [given |-> TRUE, text |-> text]
Missing(default) == [given |-> FALSE, text |-> default]

NoArgs == [q |-> Missing(<<>>), w |-> Missing(""), semantic |-> Missing("")]

\* The requests put to GET /hits/
Requests ==
    [q : {Given(query) : query \in Queries} \cup {Missing(<<>>)},
     w : {Given(text) : text \in WTexts} \cup {Missing("")},
     semantic : {Given(text) : text \in SemanticTexts} \cup {Missing("")}]

NoResponse == [sent |-> FALSE]

\* No second run of load_index
NoReload == [pc |-> "none"]

\* load_index at the start of an index server
IndexServerInit ==
    /\ server = "index"
    /\ \E corpus \in Corpora :
         /\ INDEX_DATA = corpus.index
         /\ STOPWORDS = corpus.stopwords
         /\ PAGERANK = corpus.pagerank
         /\ semantic_engine \in SemanticEngines(corpus.doc_ids)
    /\ call = NoCall
    /\ args = NoArgs
    /\ response = NoResponse
    /\ reload = NoReload
    /\ SearchServerIdle
    /\ PipelineIdle

\* A call that remembers the terms it has seen in the stopword set
Query_remembering_terms(query, weight, search_mode, order) ==
    /\ server = "index"
    /\ ~call.made
    /\ call' = [made |-> TRUE, query |-> query, weight |-> weight,
                search_mode |-> search_mode, order |-> order,
                hits |-> perform_enhanced_search(query, weight, search_mode, order)]
    /\ STOPWORDS' = STOPWORDS \cup Range(process_query(query))
    /\ UNCHANGED << server, pipeline_vars, INDEX_DATA, PAGERANK,
                    semantic_engine, reload, search_vars >>

\* One call of perform_enhanced_search, by a request in flight
Query(query, weight, search_mode, order) ==
    /\ server = "index"
    /\ ~call.made
    /\ call' = [made |-> TRUE, query |-> query, weight |-> weight,
                search_mode |-> search_mode, order |-> order,
                hits |-> perform_enhanced_search(query, weight, search_mode, order)]
    /\ UNCHANGED << server, pipeline_vars, INDEX_DATA, STOPWORDS, PAGERANK,
                    semantic_engine, reload, search_vars >>

\* get_hits: weight = float(request.args.get("w", 0.5)), 0.5 on ValueError
weight_of(w) ==
    IF ~w.given THEN Scale \div 2
    ELSE IF float(w.text) = NonNumeric THEN Scale \div 2
    ELSE float(w.text)

\* get_hits: the search mode, "traditional" when it is none of the three
search_mode_of(semantic) ==
    IF ~semantic.given THEN "traditional"
    ELSE IF lower(semantic.text) \in SearchModes THEN lower(semantic.text)
    ELSE "traditional"

\* jsonify of the three fields get_hits returns after a search
SearchResponse(hits, search_mode) ==
    [sent |-> TRUE, fields |-> {"hits", "search_mode", "semantic_available"},
     hits |-> hits, search_mode |-> search_mode,
     semantic_available |-> is_semantic_available]

\* The answer of the server to a request whose handler raised: status 500
ErrorResponse == [sent |-> TRUE, fields |-> {}, status |-> 500]

\* jsonify({"hits": []})
EmptyResponse == [sent |-> TRUE, fields |-> {"hits"}, hits |-> <<>>]

\* The handler of GET /hits/ for one request
get_hits(request_args, order) ==
    /\ server = "index"
    /\ ~response.sent
    /\ args' = request_args
    /\ IF request_args.q.text = <<>>
       THEN /\ response' = EmptyResponse
            /\ UNCHANGED << server, pipeline_vars, INDEX_DATA, STOPWORDS,
                            PAGERANK, semantic_engine, call, reload, search_vars >>
       ELSE /\ Query(request_args.q.text, weight_of(request_args.w),
                     search_mode_of(request_args.semantic), order)
            /\ response' =
                   IF has_raised(call'.hits) THEN ErrorResponse
                   ELSE SearchResponse(call'.hits,
                                       search_mode_of(request_args.semantic))

\* The request is answered and its context is gone; the server waits for the
\* next one
Respond ==
    /\ server = "index"
    /\ response.sent
    /\ call' = NoCall
    /\ args' = NoArgs
    /\ response' = NoResponse
    /\ UNCHANGED << server, pipeline_vars, INDEX_DATA, STOPWORDS, PAGERANK,
                    semantic_engine, reload, search_vars >>

IndexServerNext ==
    \/ /\ server = "index" /\ ~response.sent
       /\ \E request_args \in Requests :
            \E order \in IterationOrders(request_args.q.text,
                                         weight_of(request_args.w)) :
              get_hits(request_args, order)
    \/ Respond

\* ---------------------------------------- load_index run again on a server

\* The lines of inverted_index_0.txt .. inverted_index_2.txt in the order
\* _load_inverted_index reads them
index_lines(files) == Concat(files)

\* _load_inverted_index: index_data[key] = line for every line of the
\* three files, key the first token of the line
_load_inverted_index(files) ==
    LET lines == index_lines(files)
    IN  [key \in {lines[i][1] : i \in DOMAIN lines} |->
            lines[CHOOSE i \in DOMAIN lines :
                     /\ lines[i][1] = key
                     /\ \A j \in DOMAIN lines : lines[j][1] = key => j <= i]]

RECURSIVE dict_keys(_)
\* The keys of the dict _load_inverted_index builds, in the order of
\* insertion: the first tokens of the lines in the order the files list
\* them, each at the place of its first line
dict_keys(lines) ==
    IF lines = <<>> THEN <<>>
    ELSE LET keys == dict_keys(SubSeq(lines, 1, Len(lines) - 1))
             key == lines[Len(lines)][1]
         IN  IF key \in Range(keys) THEN keys ELSE Append(keys, key)

\* An index file of a corpus: its lines for the terms in the order given
index_file(corpus, terms) == [i \in DOMAIN terms |-> corpus.index[terms[i]]]

\* The orders in which the index file of a corpus lists its terms: sorted,
\* as reduce5 writes a file, or in the opposite order
FileOrders(corpus) == { corpus.terms, Reverse(corpus.terms) }

\* load_index up to the call of _update_global_data: the tables of the new
\* files are built; old are the tables in memory
Reloading(old, new, files) ==
    [pc |-> "index", old |-> old,
     index_data |-> _load_inverted_index(files),
     stopwords |-> new.stopwords, pagerank |-> new.pagerank,
     doc_ids |-> new.doc_ids,
     keys |-> dict_keys(index_lines(files))]

\* A server whose files are replaced and loaded again while it serves queries
ReloadInit ==
    /\ server = "index"
    /\ \E old \in Corpora, new \in Corpora :
         /\ old # new
         /\ INDEX_DATA = old.index
         /\ STOPWORDS = old.stopwords
         /\ PAGERANK = old.pagerank
         /\ semantic_engine \in SemanticEngines(old.doc_ids)
         /\ \E terms \in FileOrders(new) :
              reload = Reloading(old, new, << index_file(new, terms) >>)
    /\ call = NoCall
    /\ args = NoArgs
    /\ response = NoResponse
    /\ SearchServerIdle
    /\ PipelineIdle

\* The tables with one more entry of index_data
with_entry(index, key, value) ==
    [t \in DOMAIN index \cup {key} |-> IF t = key THEN value ELSE index[t]]

\* _update_global_data: INDEX_DATA[key] = value, for one item of index_data
UpdateIndexEntry ==
    /\ server = "index"
    /\ reload.pc = "index"
    /\ reload.keys # <<>>
    /\ INDEX_DATA' = with_entry(INDEX_DATA, Head(reload.keys),
                                reload.index_data[Head(reload.keys)])
    /\ reload' = [reload EXCEPT !.keys = Tail(reload.keys)]
    /\ UNCHANGED << server, pipeline_vars, search_vars, STOPWORDS, PAGERANK,
                    semantic_engine, call, args, response >>

\* _update_global_data: STOPWORDS.clear(), after the loop over index_data
ClearStopwords ==
    /\ server = "index"
    /\ reload.pc = "index"
    /\ reload.keys = <<>>
    /\ STOPWORDS' = {}
    /\ reload' = [reload EXCEPT !.pc = "stopwords"]
    /\ UNCHANGED << server, pipeline_vars, search_vars, INDEX_DATA, PAGERANK,
                    semantic_engine, call, args, response >>

\* _update_global_data: STOPWORDS.update(stopwords)
UpdateStopwords ==
    /\ server = "index"
    /\ reload.pc = "stopwords"
    /\ STOPWORDS' = STOPWORDS \cup reload.stopwords
    /\ reload' = [reload EXCEPT !.pc = "pagerank_clear"]
    /\ UNCHANGED << server, pipeline_vars, search_vars, INDEX_DATA, PAGERANK,
                    semantic_engine, call, args, response >>

\* _update_global_data: PAGERANK.clear()
ClearPagerank ==
    /\ server = "index"
    /\ reload.pc = "pagerank_clear"
    /\ PAGERANK' = [d \in {} |-> 0]
    /\ reload' = [reload EXCEPT !.pc = "pagerank"]
    /\ UNCHANGED << server, pipeline_vars, search_vars, INDEX_DATA, STOPWORDS,
                    semantic_engine, call, args, response >>

\* _update_global_data: PAGERANK.update(pagerank), its last statement
UpdatePagerank ==
    /\ server = "index"
    /\ reload.pc = "pagerank"
    /\ PAGERANK' = [d \in DOMAIN PAGERANK \cup DOMAIN reload.pagerank |->
                       IF d \in DOMAIN reload.pagerank THEN reload.pagerank[d]
                       ELSE PAGERANK[d]]
    /\ reload' = [reload EXCEPT !.pc = "semantic"]
    /\ UNCHANGED << server, pipeline_vars, search_vars, INDEX_DATA, STOPWORDS,
                    semantic_engine, call, args, response >>

\* ---- load_index: initialize_semantic_search, after _update_global_data.
\* The engine is the one the process has: what the calls do not assign
\* keeps the value it had.

\* doc_metadata = {}
EmptyMetadata == [k \in {} |-> 0]

\* initialize: self.model = SentenceTransformer(self.model_name) has loaded
\* the model, whose encoder may raise when it is called
model_loaded(engine) ==
    { [engine EXCEPT !.model = TRUE, !.encode_raises = r] : r \in BOOLEAN }

\* initialize, except Exception: self.model = None
model_failed(engine) ==
    [engine EXCEPT !.model = FALSE, !.encode_raises = FALSE]

\* _load_embeddings, except Exception: no embeddings and no metadata
embeddings_failed(engine) ==
    [engine EXCEPT !.doc_embeddings = None, !.doc_metadata = EmptyMetadata]

\* What semantic_metadata.pkl can hold: the metadata of a list of docids
\* saved earlier, or an empty dict
metadata_files(doc_id_lists) ==
    {EmptyMetadata} \cup { [doc_ids |-> doc_ids] : doc_ids \in doc_id_lists }

\* What semantic_embeddings.npy can hold: the rows of the embeddings of a
\* list of docids saved earlier, one row for each docid
embeddings_files(doc_id_lists) ==
    { Len(doc_ids) : doc_ids \in doc_id_lists } \ {0}

\* _load_embeddings: nothing is assigned without the two files; np.load and
\* pickle.load assign what the files hold; an exception of either is caught
_load_embeddings(engine, doc_id_lists) ==
    {engine, embeddings_failed(engine)}
    \cup { [engine EXCEPT !.doc_embeddings = rows, !.doc_metadata = m] :
               rows \in embeddings_files(doc_id_lists),
               m \in metadata_files(doc_id_lists) }

\* SemanticSearchEngine.initialize
initialize(engine, doc_id_lists) ==
    {model_failed(engine)}
    \cup UNION { _load_embeddings(e, doc_id_lists) : e \in model_loaded(engine) }

\* build_document_embeddings on a database whose documents with text are
\* doc_ids: nothing without the model, without such a document, or when the
\* encoder raises
build_document_embeddings(engine, doc_ids) ==
    IF ~engine.model \/ doc_ids = <<>> \/ engine.encode_raises THEN engine
    ELSE [engine EXCEPT !.doc_embeddings = Len(doc_ids),
                        !.doc_metadata = [doc_ids |-> doc_ids]]

\* initialize_semantic_search(index_dir, db_path): initialize, and the build
\* when the database exists and the engine is not available
initialize_semantic_search(engine, doc_id_lists, doc_ids) ==
    UNION { IF is_available(e) THEN {e}
            ELSE {e, build_document_embeddings(e, doc_ids)} :
               e \in initialize(engine, doc_id_lists) }

\* The lists of docids the metadata file of a reloading server can hold:
\* those of the files it had and those of the new ones
ReloadDocIdLists == {reload.old.doc_ids, reload.doc_ids}

\* initialize, up to _load_embeddings
LoadModel ==
    /\ server = "index"
    /\ reload.pc = "semantic"
    /\ \/ /\ semantic_engine' \in model_loaded(semantic_engine)
          /\ reload' = [reload EXCEPT !.pc = "load_embeddings"]
       \/ /\ semantic_engine' = model_failed(semantic_engine)
          /\ reload' = [reload EXCEPT !.pc = "build"]
    /\ UNCHANGED << server, pipeline_vars, search_vars, INDEX_DATA, STOPWORDS,
                    PAGERANK, call, args, response >>

\* _load_embeddings up to self.doc_embeddings = np.load(...): without the
\* files nothing is assigned; the exception of np.load is caught
LoadEmbeddings ==
    /\ server = "index"
    /\ reload.pc = "load_embeddings"
    /\ \/ /\ semantic_engine' \in {semantic_engine,
                                   embeddings_failed(semantic_engine)}
          /\ reload' = [reload EXCEPT !.pc = "build"]
       \/ /\ semantic_engine' \in
                 { [semantic_engine EXCEPT !.doc_embeddings = rows] :
                       rows \in embeddings_files(ReloadDocIdLists) }
          /\ reload' = [reload EXCEPT !.pc = "load_metadata"]
    /\ UNCHANGED << server, pipeline_vars, search_vars, INDEX_DATA, STOPWORDS,
                    PAGERANK, call, args, response >>

\* _load_embeddings: self.doc_metadata = pickle.load(f), or its exception
LoadMetadata ==
    /\ server = "index"
    /\ reload.pc = "load_metadata"
    /\ semantic_engine' \in
           {embeddings_failed(semantic_engine)}
           \cup { [semantic_engine EXCEPT !.doc_metadata = m] :
                      m \in metadata_files(ReloadDocIdLists) }
    /\ reload' = [reload EXCEPT !.pc = "build"]
    /\ UNCHANGED << server, pipeline_vars, search_vars, INDEX_DATA, STOPWORDS,
                    PAGERANK, call, args, response >>

\* initialize_semantic_search after initialize: build_document_embeddings
\* up to self.doc_embeddings = np.vstack(embeddings), when the database
\* exists and the engine is not available; the documents of the database
\* are those of the new files
BuildEmbeddings ==
    /\ server = "index"
    /\ reload.pc = "build"
    /\ \/ /\ semantic_engine' = semantic_engine
          /\ reload' = [reload EXCEPT !.pc = "done"]
       \/ /\ ~is_semantic_available
          /\ build_document_embeddings(semantic_engine, reload.doc_ids)
                 # semantic_engine
          /\ semantic_engine' = [semantic_engine EXCEPT
                                     !.doc_embeddings = Len(reload.doc_ids)]
          /\ reload' = [reload EXCEPT !.pc = "build_metadata"]
    /\ UNCHANGED << server, pipeline_vars, search_vars, INDEX_DATA, STOPWORDS,
                    PAGERANK, call, args, response >>

\* build_document_embeddings: self.doc_metadata = {'doc_ids': doc_ids, ...}
BuildMetadata ==
    /\ server = "index"
    /\ reload.pc = "build_metadata"
    /\ semantic_engine' = build_document_embeddings(semantic_engine,
                                                    reload.doc_ids)
    /\ reload' = [reload EXCEPT !.pc = "done"]
    /\ UNCHANGED << server, pipeline_vars, search_vars, INDEX_DATA, STOPWORDS,
                    PAGERANK, call, args, response >>

\* ---- a request served by another thread while load_index runs: between
\* two reads of the tables by the request the reload may go on

\* The words of the queries served during the reload: no "apache", whose
\* eleven documents in every order of iteration, each scored at every
\* position of the reload, are too many to follow
ReloadWords == RawWords \ {W_apache, W_ApacheComma}

\* The requests served during the reload: the queries of ReloadWords with
\* the default weight and mode
ReloadRequests ==
    [q : {Given(JoinWords(ws)) :
             ws \in UNION { [1..n -> ReloadWords] : n \in 0..MaxQueryWords }}
         \cup {Missing(<<>>)},
     w : {Missing("")},
     semantic : {Missing("")}]

\* The local variables of a traditional search at its start: pc is the
\* loop that reads a table next, todo the terms that loop has not read yet
Locals(query, weight, search_mode) ==
    [made |-> FALSE, pc |-> "process_query", query |-> query,
     weight |-> weight, search_mode |-> search_mode,
     todo |-> split(casefold(re_sub_query(query))),
     query_terms |-> <<>>, valid_terms |-> <<>>,
     q_lines |-> [t \in {} |-> <<>>], query_vector |-> [t \in {} |-> 0],
     doc_sets |-> {}, docs |-> {}, docid |-> None,
     lines |-> [i \in {} |-> <<>>], tfidf |-> 0, results |-> <<>>]

\* perform_enhanced_search has returned hits (or raised) to get_hits;
\* scored are the documents scored, in the order of iteration
Returned(c, scored, hits) ==
    [made |-> TRUE, query |-> c.query, weight |-> c.weight,
     search_mode |-> c.search_mode,
     order |-> [i \in DOMAIN scored |-> scored[i].docid],
     hits |-> hits]

\* q_tf.keys(): the terms in the order of their first occurrence
term_keys(terms) ==
    LET firsts == first_insertions(terms)
    IN  [i \in DOMAIN firsts |-> firsts[i].docid]

RECURSIVE next_read(_)
\* The search from the end of a loop to its next read of a table, or to its
\* return: the tests and early returns of _perform_traditional_search and
\* _perform_normal_search between the loops
next_read(c) ==
    IF c.made \/ c.todo # <<>> THEN c
    ELSE IF c.pc = "process_query"
    THEN IF c.query_terms = <<>> \/ W_aaaaaaa \in Range(c.query_terms)
         THEN Returned(c, <<>>, <<>>)
         ELSE next_read([c EXCEPT !.pc = "valid_terms",
                                  !.todo = c.query_terms])
    ELSE IF c.pc = "valid_terms"
    THEN IF c.valid_terms = <<>> THEN Returned(c, <<>>, <<>>)
         ELSE IF _check_test_fixtures(c.valid_terms, c.weight) # <<>>
         THEN Returned(c, <<>>,
                       _check_test_fixtures(c.valid_terms, c.weight))
         ELSE next_read([c EXCEPT !.pc = "query_vector",
                                  !.todo = term_keys(c.valid_terms)])
    ELSE IF c.pc = "query_vector"
    THEN LET query_vector == query_vector_from(c.valid_terms, c.q_lines)
         IN  IF \/ DOMAIN query_vector = {}
                \/ SumOver(query_vector, DOMAIN query_vector) = 0
             THEN Returned(c, <<>>, <<>>)
             ELSE next_read([c EXCEPT !.pc = "common_documents",
                                      !.todo = c.valid_terms,
                                      !.query_vector = query_vector])
    ELSE IF c.pc = "common_documents"
    THEN IF common_documents_of(c.doc_sets) = {}
         THEN Returned(c, <<>>, <<>>)
         ELSE [c EXCEPT !.pc = "tfidf_score",
                        !.todo = c.valid_terms,
                        !.docs = common_documents_of(c.doc_sets)]
    ELSE IF c.pc = "tfidf_score"
    THEN [c EXCEPT !.pc = "pagerank",
                   !.tfidf = tfidf_score_from(c.docid, c.valid_terms,
                                              c.query_vector, c.lines)]
    ELSE c

\* What get_hits answers once the search has returned or raised: jsonify
\* with is_semantic_available() as it is then
response_of(c) ==
    IF ~c.made THEN NoResponse
    ELSE IF has_raised(c.hits) THEN ErrorResponse
    ELSE SearchResponse(c.hits, c.search_mode)

\* get_hits up to the first read of a table: the parameters of the request
\* and the split of the query in process_query
get_hits_start(request_args) ==
    /\ server = "index"
    /\ call = NoCall
    /\ ~response.sent
    /\ args' = request_args
    /\ IF request_args.q.text = <<>>
       THEN /\ response' = EmptyResponse
            /\ call' = call
       ELSE /\ call' = next_read(Locals(request_args.q.text,
                                        weight_of(request_args.w),
                                        search_mode_of(request_args.semantic)))
            /\ response' = response
    /\ UNCHANGED << server, pipeline_vars, search_vars, INDEX_DATA, STOPWORDS,
                    PAGERANK, semantic_engine, reload >>

\* The search in flight at the loop pc
Searching(at) ==
    /\ server = "index"
    /\ call # NoCall
    /\ ~call.made
    /\ call.pc = at

\* The search goes on to c: one read of a table and what follows it up to
\* the next read, or to the return of perform_enhanced_search
search_step(c) ==
    /\ call' = next_read(c)
    /\ UNCHANGED << server, pipeline_vars, search_vars, INDEX_DATA, STOPWORDS,
                    PAGERANK, semantic_engine, reload, args, response >>

\* get_hits after perform_enhanced_search: the response is built, and
\* is_semantic_available() reads the engine as it is now
get_hits_return ==
    /\ server = "index"
    /\ call # NoCall
    /\ call.made
    /\ ~response.sent
    /\ response' = response_of(call)
    /\ UNCHANGED << server, pipeline_vars, search_vars, INDEX_DATA, STOPWORDS,
                    PAGERANK, semantic_engine, reload, args, call >>

\* process_query: term not in STOPWORDS, for one term of the query
process_query_read ==
    /\ Searching("process_query")
    /\ search_step(
          [call EXCEPT
              !.todo = Tail(call.todo),
              !.query_terms =
                  IF Head(call.todo) \notin STOPWORDS
                  THEN Append(call.query_terms, Head(call.todo))
                  ELSE call.query_terms])

\* _perform_traditional_search: term in INDEX_DATA, for one query term
valid_terms_read ==
    /\ Searching("valid_terms")
    /\ search_step(
          [call EXCEPT
              !.todo = Tail(call.todo),
              !.valid_terms =
                  IF Head(call.todo) \in DOMAIN INDEX_DATA
                  THEN Append(call.valid_terms, Head(call.todo))
                  ELSE call.valid_terms])

\* _calculate_query_vector: INDEX_DATA[term], for one key of q_tf
query_vector_read ==
    /\ Searching("query_vector")
    /\ search_step(
          [call EXCEPT
              !.todo = Tail(call.todo),
              !.q_lines =
                  IF Head(call.todo) \in DOMAIN INDEX_DATA
                  THEN with_entry(call.q_lines, Head(call.todo),
                                  INDEX_DATA[Head(call.todo)])
                  ELSE call.q_lines])

\* _find_common_documents: get_docs_for_term(term), for one term
common_documents_read ==
    /\ Searching("common_documents")
    /\ search_step(
          [call EXCEPT
              !.todo = Tail(call.todo),
              !.doc_sets = call.doc_sets
                  \cup ({get_docs_for_term(Head(call.todo))} \ {{}})])

\* _calculate_tfidf_score: INDEX_DATA[term], for one term and the document
\* of this turn of the loop over common_docs; the first read of a turn
\* takes the next docid of the set, any of those left. A line without an
\* idf raises IndexError, one with text for the idf, or for the tf or the
\* norm of the document, raises ValueError.
tfidf_score_read ==
    /\ Searching("tfidf_score")
    /\ \E docid \in (IF call.docid = None THEN call.docs ELSE {call.docid}) :
         LET term == Head(call.todo)
             i == Len(call.valid_terms) - Len(call.todo) + 1
             exception ==
                 IF term \notin DOMAIN INDEX_DATA THEN "none"
                 ELSE tfidf_exception(
                          [k \in {i} |-> INDEX_DATA[term]],
                          [k \in {i} |-> posting_position(INDEX_DATA[term], docid)])
         IN  IF exception # "none"
             THEN search_step(Returned(call, call.results, Raised(exception)))
             ELSE search_step(
                    [call EXCEPT
                        !.docid = docid,
                        !.todo = Tail(call.todo),
                        !.lines =
                            IF term \in DOMAIN INDEX_DATA
                            THEN with_entry(call.lines, i, INDEX_DATA[term])
                            ELSE call.lines])

\* _perform_normal_search: PAGERANK.get(docid, 0.0), the score of the
\* document with int(docid), and after the last document the sort
pagerank_read ==
    /\ Searching("pagerank")
    /\ LET scored == Append(call.results,
                            Hit(call.docid,
                                combined_score(call.weight, call.tfidf,
                                               pagerank_get(call.docid))))
       IN  IF scoring_exception(call.docid, call.tfidf) # "none"
           THEN search_step(
                  Returned(call, call.results,
                           Raised(scoring_exception(call.docid, call.tfidf))))
           ELSE IF call.docs = {call.docid}
           THEN search_step(Returned(call, scored,
                                     sort_by_score_desc(scored)))
           ELSE search_step(
                  [call EXCEPT !.pc = "tfidf_score",
                               !.todo = call.valid_terms,
                               !.docs = call.docs \ {call.docid},
                               !.docid = None,
                               !.lines = [i \in {} |-> <<>>],
                               !.tfidf = 0,
                               !.results = scored])

\* A read of a table by the search in flight
ReadsTables ==
    \/ process_query_read
    \/ valid_terms_read
    \/ query_vector_read
    \/ common_documents_read
    \/ tfidf_score_read
    \/ pagerank_read

ReloadNext ==
    \/ \E request_args \in ReloadRequests : get_hits_start(request_args)
    \/ process_query_read
    \/ valid_terms_read
    \/ query_vector_read
    \/ common_documents_read
    \/ tfidf_score_read
    \/ pagerank_read
    \/ get_hits_return
    \/ Respond
    \/ UpdateIndexEntry
    \/ ClearStopwords
    \/ UpdateStopwords
    \/ ClearPagerank
    \/ UpdatePagerank
    \/ LoadModel
    \/ LoadEmbeddings
    \/ LoadMetadata
    \/ BuildEmbeddings
    \/ BuildMetadata

ReloadSpec == ReloadInit /\ [][ReloadNext]_vars

\* ------------------------------------------------------------ search server

Shards == 1..NumShards

\* The hit list index segment u serves for the request: its documents are
\* those with docid mod 3 = u - 1; segments 1 and 3 serve equal scores.
ShardHits(u) ==
    [k \in 1..(ShardHitsLen + (IF u = 1 THEN 1 ELSE 0)) |->
        Hit(3 * k + (u - 1),
            Scale - 1000 * k - (IF u = 2 THEN 500 ELSE 0))]

\* A JSON value in the place of "hits"
JsonList(items) == [type |-> "list", items |-> items]
JsonNull == [type |-> "null"]

\* A JSON object; has_hits / has_semantic: whether the key is present
JsonObject(has_hits, hits, has_semantic, semantic_available) ==
    [object |-> TRUE, has_hits |-> has_hits, hits |-> hits,
     has_semantic |-> has_semantic, semantic_available |-> semantic_available]

\* A JSON document that is not an object, such as []
JsonNotObject == [object |-> FALSE]

\* The hit list with its first hit stripped of "score"
WithoutScore(hits) ==
    [i \in DOMAIN hits |-> IF i = 1 THEN [docid |-> hits[i].docid] ELSE hits[i]]

\* What requests.get(url, ..., timeout=5.0) can end in for segment u
Answers(u) ==
    { [kind |-> "timeout"], [kind |-> "connection_error"], [kind |-> "not_ok"],
      [kind |-> "bad_json"],
      [kind |-> "json", body |-> JsonNotObject],
      [kind |-> "json", body |-> JsonObject(TRUE, JsonList(ShardHits(u)), TRUE, TRUE)],
      [kind |-> "json", body |-> JsonObject(TRUE, JsonList(ShardHits(u)), TRUE, FALSE)],
      [kind |-> "json", body |-> JsonObject(TRUE, JsonList(<<>>), FALSE, FALSE)],
      [kind |-> "json", body |-> JsonObject(FALSE, JsonNull, TRUE, FALSE)],
      [kind |-> "json", body |-> JsonObject(TRUE, JsonNull, TRUE, TRUE)],
      [kind |-> "json",
       body |-> JsonObject(TRUE, JsonList(WithoutScore(ShardHits(u))), TRUE, FALSE)] }

\* The documents table of the search server's database
Documents ==
    [d \in 3..8 |-> [title |-> CASE d = 3 -> "MapReduce"
                                 [] d = 4 -> "NLP"
                                 [] d = 5 -> "Big data"
                                 [] OTHER -> "title",
                     url |-> "url",
                     summary |-> IF d % 2 = 0 THEN "summary" ELSE ""]]

\* search.model.get_doc
get_doc(docid) ==
    IF docid \in DOMAIN Documents THEN Documents[docid]
    ELSE [title |-> "", url |-> "", summary |-> ""]

\* json_response.get("hits", [])
get_hits_or_empty(body) == IF body.has_hits THEN body.hits ELSE JsonList(<<>>)

\* json_response.get("semantic_available", False)
get_semantic_or_false(body) ==
    IF body.has_semantic THEN body.semantic_available ELSE FALSE

\* The search server before a request
SearchServerInit ==
    /\ server = "search"
    /\ INDEX_DATA = [t \in {} |-> <<>>]
    /\ STOPWORDS = {}
    /\ PAGERANK = [d \in {} |-> 0]
    /\ semantic_engine = NoEngine
    /\ call = NoCall
    /\ args = NoArgs
    /\ response = NoResponse
    /\ reload = NoReload
    /\ SearchServerIdle
    /\ PipelineIdle

\* The queries put to the search server
SearchQueries == { JoinWords(<< W_apache, W_hadoop >>), W_mapreduce, W_nlp, <<>> }

\* _fetch_enhanced_search_results up to the creation of the threads
FetchEnhancedSearchResults(query, weight, search_mode) ==
    /\ server = "search"
    /\ pc = "idle"
    /\ request' = [query |-> query, weight |-> weight, search_mode |-> search_mode]
    /\ responses' = <<>>
    /\ search_metadata' = [semantic_available |-> FALSE, updated |-> FALSE,
                           search_mode |-> search_mode]
    /\ thread' = [u \in Shards |-> "new"]
    /\ next_thread' = 1
    /\ pc' = "start"
    /\ UNCHANGED << server, pipeline_vars, index_vars, answer, json_response, results >>

\* for thread in threads: thread.start()
StartThread ==
    /\ pc = "start"
    /\ thread' = [thread EXCEPT ![next_thread] = "get"]
    /\ IF next_thread = NumShards
       THEN pc' = "join" /\ next_thread' = 1
       ELSE pc' = pc /\ next_thread' = next_thread + 1
    /\ UNCHANGED << server, pipeline_vars, index_vars, request, answer, json_response,
                    responses, search_metadata, results >>

\* fetch, from requests.get to response.json(): the thread goes on only
\* with an OK response whose body parses; a body that is not an object
\* ends the thread at json_response.get by an AttributeError.
Get(u, ans) ==
    /\ thread[u] = "get"
    /\ answer' = [answer EXCEPT ![u] = ans]
    /\ IF ans.kind = "json" /\ ans.body.object
       THEN /\ json_response' = [json_response EXCEPT ![u] = ans.body]
            /\ thread' = [thread EXCEPT ![u] = "append"]
       ELSE /\ json_response' = json_response
            /\ thread' = [thread EXCEPT ![u] = "done"]
    /\ UNCHANGED << server, pipeline_vars, index_vars, pc, request, next_thread, responses,
                    search_metadata, results >>

\* responses.append(json_response.get("hits", []))
AppendHits(u) ==
    /\ thread[u] = "append"
    /\ responses' = Append(responses, get_hits_or_empty(json_response[u]))
    /\ thread' = [thread EXCEPT ![u] = "check"]
    /\ UNCHANGED << server, pipeline_vars, index_vars, pc, request, next_thread, answer,
                    json_response, search_metadata, results >>

\* if not search_metadata.get("_updated")
CheckUpdated(u) ==
    /\ thread[u] = "check"
    /\ thread' = [thread EXCEPT ![u] =
                     IF search_metadata.updated THEN "done" ELSE "set_semantic"]
    /\ UNCHANGED << server, pipeline_vars, index_vars, pc, request, next_thread, answer,
                    json_response, responses, search_metadata, results >>

\* search_metadata["semantic_available"] = json_response.get(...)
SetSemantic(u) ==
    /\ thread[u] = "set_semantic"
    /\ search_metadata' = [search_metadata EXCEPT
                              !.semantic_available =
                                  get_semantic_or_false(json_response[u])]
    /\ thread' = [thread EXCEPT ![u] = "set_updated"]
    /\ UNCHANGED << server, pipeline_vars, index_vars, pc, request, next_thread, answer,
                    json_response, responses, results >>

\* search_metadata["_updated"] = True
SetUpdated(u) ==
    /\ thread[u] = "set_updated"
    /\ search_metadata' = [search_metadata EXCEPT !.updated = TRUE]
    /\ thread' = [thread EXCEPT ![u] = "done"]
    /\ UNCHANGED << server, pipeline_vars, index_vars, pc, request, next_thread, answer,
                    json_response, responses, results >>

\* The expected_titles of the two special cases of index
MapReduceTitles ==
    << "MapReduce", "Native cloud application", "Big data", "Apache CouchDB",
       "Distributed file system for cloud", "Solution stack",
       "Category:Parallel computing", "Google File System", "Apache HBase",
       "MongoDB" >>

NlpTitles ==
    << "NLP", "Natural language processing", "Process engineering",
       "Unstructured data", "Artificial intelligence",
       "School of Informatics, University of Edinburgh",
       "List of computer science awards", "Scientific modelling",
       "Unsupervised learning", "Virtual assistant" >>

\* SELECT docid ... FROM documents WHERE title = ?, fetchone(): 0 for None
docid_of_title(title) ==
    LET rows == {d \in DOMAIN Documents : Documents[d].title = title}
    IN  IF rows = {} THEN 0 ELSE CHOOSE d \in rows : \A e \in rows : d <= e

\* The results of _get_test_results: the documents of the titles the
\* database holds, each with the placeholder score 0.5
test_results(titles) ==
    LET found == SelectSeq(titles, LAMBDA title : docid_of_title(title) # 0)
    IN  [i \in DOMAIN found |->
            [docid |-> docid_of_title(found[i]),
             score |-> Scale \div 2,
             title |-> Documents[docid_of_title(found[i])].title,
             url |-> Documents[docid_of_title(found[i])].url,
             summary |-> Documents[docid_of_title(found[i])].summary]]

\* index returns a page without a search: for an empty query, and by
\* _get_test_results for the two special cases
render_without_search(query, weight, search_mode, page_results) ==
    /\ request' = [query |-> query, weight |-> weight, search_mode |-> search_mode]
    /\ results' = page_results
    /\ search_metadata' = [semantic_available |-> FALSE, updated |-> FALSE,
                           search_mode |-> search_mode]
    /\ pc' = "rendered"
    /\ UNCHANGED << server, pipeline_vars, index_vars, next_thread, thread,
                    answer, json_response, responses >>

\* The view of GET /, up to its return or to the creation of the threads
index(query, weight, search_mode) ==
    /\ server = "search"
    /\ pc = "idle"
    /\ IF query = <<>>
       THEN render_without_search(query, weight, search_mode, <<>>)
       ELSE IF query = W_mapreduce /\ weight = (22 * Scale) \div 100
       THEN render_without_search(query, weight, search_mode,
                                  test_results(MapReduceTitles))
       ELSE IF query = W_nlp /\ weight = 0
       THEN render_without_search(query, weight, search_mode,
                                  test_results(NlpTitles))
       ELSE FetchEnhancedSearchResults(query, weight, search_mode)

\* index renders the results _fetch_enhanced_search_results returned
Render ==
    /\ pc = "returned"
    /\ pc' = "rendered"
    /\ UNCHANGED << server, pipeline_vars, index_vars, request, next_thread,
                    thread, answer, json_response, responses, search_metadata,
                    results >>

\* thread.join() returns without waiting
join_returns_at_once(u) == TRUE

\* thread.join() returns once the thread has ended
join_returns(u) == thread[u] = "done"

\* for thread in threads: thread.join()
JoinThread ==
    /\ pc = "join"
    /\ join_returns(next_thread)
    /\ IF next_thread = NumShards
       THEN pc' = "merge" /\ next_thread' = 1
       ELSE pc' = pc /\ next_thread' = next_thread + 1
    /\ UNCHANGED << server, pipeline_vars, index_vars, request, thread, answer, json_response,
                    responses, search_metadata, results >>

\* sorted(all_hits, key=score, reverse=True)[:10]
top_hits_of(all_hits) ==
    LET all_hits_sorted == sort_by_score_desc(all_hits)
    IN  SubSeq(all_hits_sorted, 1, Min(TopK, Len(all_hits_sorted)))

\* From the merge to the return; an exception of the merge leaves the
\* function and fails the request.
Merge ==
    /\ pc = "merge"
    /\ LET iterable == \A i \in DOMAIN responses : responses[i].type = "list"
           all_hits == Concat([i \in DOMAIN responses |-> responses[i].items])
           keyed == \A i \in DOMAIN all_hits : "score" \in DOMAIN all_hits[i]
           top_hits == top_hits_of(all_hits)
           identified == \A i \in DOMAIN top_hits : "docid" \in DOMAIN top_hits[i]
       IN  IF iterable /\ keyed /\ identified
           THEN /\ results' = [i \in DOMAIN top_hits |->
                                  [docid |-> top_hits[i].docid,
                                   score |-> top_hits[i].score,
                                   title |-> get_doc(top_hits[i].docid).title,
                                   url |-> get_doc(top_hits[i].docid).url,
                                   summary |-> get_doc(top_hits[i].docid).summary]]
                /\ search_metadata' = [search_metadata EXCEPT !.updated = FALSE]
                /\ pc' = "returned"
           ELSE /\ results' = results
                /\ search_metadata' = search_metadata
                /\ pc' = "failed"
    /\ UNCHANGED << server, pipeline_vars, index_vars, request, next_thread, thread, answer,
                    json_response, responses >>

\* The PageRank weights put to the search server
SearchWeights == { 0, (22 * Scale) \div 100, Scale \div 2 }

\* The requests put to the search server: each query with one weight
SearchRequests ==
    { r \in [query : SearchQueries, weight : SearchWeights] :
        r.weight = CASE r.query = W_mapreduce -> (22 * Scale) \div 100
                     [] r.query = W_nlp -> 0
                     [] OTHER -> Scale \div 2 }

SearchServerNext ==
    \/ \E r \in SearchRequests, search_mode \in SearchModes :
          index(r.query, r.weight, search_mode)
    \/ Render
    \/ StartThread
    \/ \E u \in Shards : \E ans \in Answers(u) : Get(u, ans)
    \/ \E u \in Shards : AppendHits(u)
    \/ \E u \in Shards : CheckUpdated(u)
    \/ \E u \in Shards : SetSemantic(u)
    \/ \E u \in Shards : SetUpdated(u)
    \/ JoinThread
    \/ Merge

\* One search of the search server whose threads and main thread all get to
\* run: the scheduler of the threads is fair, and requests.get ends by an
\* answer, an error or its timeout of 5 seconds. The answers are the timeout,
\* the well-formed object and the object whose "hits" is null.
SomeAnswers(u) ==
    { ans \in Answers(u) :
        \/ ans.kind = "timeout"
        \/ ans.kind = "json" /\ ans.body.object /\ ans.body.has_hits
              /\ ans.body.has_semantic /\ ans.body.semantic_available
              /\ (ans.body.hits.type = "list" => ans.body.hits.items = ShardHits(u)) }

SearchOnceNext ==
    \/ index(JoinWords(<< W_apache, W_hadoop >>), Scale \div 2, "traditional")
    \/ Render
    \/ StartThread
    \/ \E u \in Shards : \E ans \in SomeAnswers(u) : Get(u, ans)
    \/ \E u \in Shards : AppendHits(u)
    \/ \E u \in Shards : CheckUpdated(u)
    \/ \E u \in Shards : SetSemantic(u)
    \/ \E u \in Shards : SetUpdated(u)
    \/ JoinThread
    \/ Merge

\* Every thread that can take a step takes one, and so does the main
\* thread: at the merge, whose step is enabled exactly when pc = "merge",
\* it does not rest for ever
SearchOnceFairness ==
    /\ WF_vars(index(JoinWords(<< W_apache, W_hadoop >>), Scale \div 2,
                     "traditional"))
    /\ WF_vars(StartThread)
    /\ WF_vars(JoinThread)
    /\ []<>(pc # "merge")
    /\ WF_vars(Render)
    /\ \A u \in Shards :
          /\ WF_vars(\E ans \in SomeAnswers(u) : Get(u, ans))
          /\ WF_vars(AppendHits(u))
          /\ WF_vars(CheckUpdated(u))
          /\ WF_vars(SetSemantic(u))
          /\ WF_vars(SetUpdated(u))

SearchOnceSpec ==
    SearchServerInit /\ [][SearchOnceNext]_vars /\ SearchOnceFairness

\* ------------------------------------------------------------ specification

Init == IndexServerInit \/ SearchServerInit

Next == IndexServerNext \/ SearchServerNext

Spec == Init /\ [][Next]_vars

\* ------------------------------------------------- the run of the pipeline

PipelineInit ==
    /\ server = "pipeline"
    /\ INDEX_DATA = [t \in {} |-> <<>>]
    /\ STOPWORDS = StopwordsFile
    /\ PAGERANK = [d \in {} |-> 0]
    /\ semantic_engine = NoEngine
    /\ call = NoCall
    /\ args = NoArgs
    /\ response = NoResponse
    /\ reload = NoReload
    /\ SearchServerIdle
    /\ \E collection \in Collections :
         LET ids == set_to_seq_asc(DOMAIN collection)
         IN  /\ output_dir = [f \in FileNames |->
                                 IF f = "input" THEN html_lines(collection, ids)
                                 ELSE <<>>]
             /\ stdin = html_lines(collection, ids)
    /\ program = "map0"
    /\ globals = <<>>
    /\ stdout = <<>>
    /\ exit_status = "running"
    /\ noise \in Noises
    /\ total_document_count = <<>>
    /\ partition_no = 0

\* The effect of one step of the running program
Advance(r, at_end) ==
    /\ globals' = r.globals
    /\ stdout' = stdout \o r.out
    /\ stdin' = IF at_end THEN stdin ELSE Tail(stdin)
    /\ exit_status' = IF r.raised THEN "aborted"
                      ELSE IF at_end THEN "done" ELSE "running"
    /\ UNCHANGED << server, index_vars, search_vars, program, noise,
                    total_document_count, partition_no, output_dir >>

Running(p) == server = "pipeline" /\ program = p /\ exit_status = "running"

\* One program each: it reads a line, or reaches the end of its input
map0 ==
    /\ Running("map0")
    /\ IF stdin = <<>> THEN Advance(Step(globals, <<>>), TRUE)
       ELSE Advance(map0_line(globals, Head(stdin)), FALSE)

reduce0 ==
    /\ Running("reduce0")
    /\ IF stdin = <<>> THEN Advance(reduce0_end(globals), TRUE)
       ELSE Advance(reduce0_line(globals, Head(stdin)), FALSE)

map1 ==
    /\ Running("map1")
    /\ IF stdin = <<>> THEN Advance(Step(globals, <<>>), TRUE)
       ELSE Advance(map1_line(globals, Head(stdin)), FALSE)

reduce1 ==
    /\ Running("reduce1")
    /\ IF stdin = <<>> THEN Advance(reduce1_end(globals), TRUE)
       ELSE Advance(reduce1_line(globals, Head(stdin)), FALSE)

map2 ==
    /\ Running("map2")
    /\ IF stdin = <<>> THEN Advance(Step(globals, <<>>), TRUE)
       ELSE Advance(map2_line(globals, Head(stdin)), FALSE)

reduce2 ==
    /\ Running("reduce2")
    /\ IF stdin = <<>> THEN Advance(reduce2_end(globals), TRUE)
       ELSE Advance(reduce2_line(globals, Head(stdin)), FALSE)

map3 ==
    /\ Running("map3")
    /\ IF stdin = <<>> THEN Advance(Step(globals, <<>>), TRUE)
       ELSE Advance(map3_line(globals, Head(stdin)), FALSE)

reduce3 ==
    /\ Running("reduce3")
    /\ IF stdin = <<>> THEN Advance(reduce3_end(globals), TRUE)
       ELSE Advance(reduce3_line(globals, Head(stdin)), FALSE)

map4 ==
    /\ Running("map4")
    /\ IF stdin = <<>> THEN Advance(Step(globals, <<>>), TRUE)
       ELSE Advance(map4_line(globals, Head(stdin)), FALSE)

reduce4 ==
    /\ Running("reduce4")
    /\ IF stdin = <<>> THEN Advance(reduce4_end(globals), TRUE)
       ELSE Advance(reduce4_line(globals, Head(stdin)), FALSE)

map5 ==
    /\ Running("map5")
    /\ IF stdin = <<>> THEN Advance(Step(globals, <<>>), TRUE)
       ELSE Advance(map5_line(globals, Head(stdin)), FALSE)

partition ==
    /\ Running("partition")
    /\ IF stdin = <<>> THEN Advance(Step(globals, <<>>), TRUE)
       ELSE Advance(partition_line(globals, Head(stdin)), FALSE)

reduce5 ==
    /\ Running("reduce5")
    /\ IF stdin = <<>> THEN Advance(reduce5_end(globals), TRUE)
       ELSE Advance(reduce5_line(globals, Head(stdin)), FALSE)

\* The program after p; job 5 runs one reduce5 per segment
next_program(p, k) ==
    IF p = "reduce5"
    THEN IF k + 1 < NumSegments THEN "reduce5" ELSE "finished"
    ELSE Programs[(CHOOSE i \in DOMAIN Programs : Programs[i] = p) + 1]

\* The framework stores the output of the program that ended and starts
\* the next one on its sorted input
StartNextProgram ==
    /\ server = "pipeline"
    /\ exit_status = "done"
    /\ program \in Range(Programs)
    /\ LET dir == [output_dir EXCEPT ![program] =
                      IF program = "reduce5" THEN Append(@, stdout) ELSE stdout]
           next == next_program(program, partition_no)
           k == IF program = "reduce5" THEN partition_no + 1 ELSE 0
           count == IF program = "reduce0" THEN stdout ELSE total_document_count
       IN  /\ output_dir' = dir
           /\ program' = next
           /\ partition_no' = IF next = "finished" THEN partition_no ELSE k
           /\ total_document_count' = count
           /\ stdin' = with_noise(next, k, program_input(next, dir, k))
           /\ globals' = initial_globals(next,
                                         IF count = <<>> THEN 0 ELSE count[1][1],
                                         STOPWORDS)
           /\ stdout' = <<>>
           /\ exit_status' = IF next = "finished" THEN "done" ELSE "running"
    /\ UNCHANGED << server, index_vars, search_vars, noise >>

PipelineNext ==
    \/ map0 \/ reduce0 \/ map1 \/ reduce1 \/ map2 \/ reduce2 \/ map3
    \/ reduce3
    \/ map4 \/ reduce4 \/ map5 \/ partition \/ reduce5
    \/ StartNextProgram

\* A run of the pipeline over one collection
PipelineSpec == PipelineInit /\ [][PipelineNext]_vars

\* ---- an index server started on the files of the run

\* The docids of the documents of the run, as the document parser lists them
run_doc_ids ==
    [i \in DOMAIN output_dir["reduce1"] |-> output_dir["reduce1"][i][1]]

\* load_index of a server that starts on the index files of the run: the
\* stopwords are those of the pipeline, there is no pagerank.out; the
\* engine is initialized last, on the embedding files and the database of
\* the documents of the run
load_index ==
    /\ server = "pipeline"
    /\ program = "finished"
    /\ reload.pc = "none"
    /\ INDEX_DATA' = _load_inverted_index(output_dir["reduce5"])
    /\ semantic_engine' \in initialize_semantic_search(
                                semantic_engine, {run_doc_ids}, run_doc_ids)
    /\ reload' = [pc |-> "loaded"]
    /\ UNCHANGED << server, search_vars, pipeline_vars, STOPWORDS, PAGERANK,
                    call, args, response >>

\* A run of the pipeline and the start of an index server on its files
IndexedNext == PipelineNext \/ load_index

IndexedSpec == PipelineInit /\ [][IndexedNext]_vars

\* ---- the search server in front of the three index servers

RECURSIVE segment_postings(_, _)
\* The postings (docid, tf, norm) of a line whose docid % 3 is the segment:
\* what map5 and reduce5 write to the file of segment seg
segment_postings(postings, seg) ==
    IF Len(postings) < 3 THEN <<>>
    ELSE (IF postings[1] % NumSegments = seg
          THEN SubSeq(postings, 1, 3) ELSE <<>>)
         \o segment_postings(SubSeq(postings, 4, Len(postings)), seg)

\* The index of the documents of segment seg: the terms with a posting in
\* it, each with its idf and its postings of the segment
segment_index(index_data, seg) ==
    [t \in {t \in DOMAIN index_data :
               segment_postings(SubSeq(index_data[t], 3, Len(index_data[t])), seg) # <<>>} |->
        SubSeq(index_data[t], 1, 2)
            \o segment_postings(SubSeq(index_data[t], 3, Len(index_data[t])), seg)]

\* inverted_index_{seg}.txt of the main corpus: the lines of segment seg
segment_file(seg) ==
    index_file([index |-> segment_index(MainIndex, seg)],
               SelectSeq(<< W_apache, W_bottle, W_hadoop, W_mapreduce, W_water >>,
                         LAMBDA t : t \in DOMAIN segment_index(MainIndex, seg)))

\* The table every index server loads: load_index reads the three files of
\* the index directory whatever the server's INDEX_PATH, and a line of a
\* later file replaces the line of the same term
ClusterIndex ==
    _load_inverted_index([k \in 1..NumSegments |-> segment_file(k - 1)])

\* The three index servers are started on the same index directory and the
\* same var/search.sqlite3: each holds the same table, pagerank.out, and a
\* semantic engine whose embeddings are those of all the documents. The
\* servers are separate processes with equal tables, which no request
\* changes: the tables of the model are those of the server that answers.
ClusterInit ==
    /\ server = "search"
    /\ INDEX_DATA = ClusterIndex
    /\ STOPWORDS = {W_the}
    /\ PAGERANK = MainPagerank
    /\ semantic_engine \in SemanticEngines(MainDocIds)
    /\ call = NoCall
    /\ args = NoArgs
    /\ response = NoResponse
    /\ reload = NoReload
    /\ SearchServerIdle
    /\ PipelineIdle

\* requests.get of thread u reaches the index server of url u: get_hits of
\* that server runs perform_enhanced_search on its tables and answers with
\* the hits and semantic_available
ShardGet(u) ==
    /\ thread[u] = "get"
    /\ \E order \in IterationOrders(request.query, request.weight) :
       call' = [made |-> TRUE, query |-> request.query,
                weight |-> request.weight,
                search_mode |-> request.search_mode, order |-> order,
                hits |-> perform_enhanced_search(
                             request.query, request.weight,
                             request.search_mode, order)]
    /\ answer' = [answer EXCEPT ![u] =
                     [kind |-> "json",
                      body |-> JsonObject(TRUE, JsonList(call'.hits), TRUE,
                                          is_semantic_available)]]
    /\ json_response' = [json_response EXCEPT ![u] = answer'[u].body]
    /\ thread' = [thread EXCEPT ![u] = "append"]
    /\ UNCHANGED << server, pipeline_vars, INDEX_DATA, STOPWORDS, PAGERANK,
                    semantic_engine, args, response, reload, pc, request,
                    next_thread, responses, search_metadata, results >>

\* The queries put to the cluster
ClusterQueries ==
    { JoinWords(<< W_apache, W_hadoop >>), W_apache, W_water }

ClusterNext ==
    \/ \E query \in ClusterQueries, search_mode \in SearchModes :
          index(query, Scale \div 2, search_mode)
    \/ Render
    \/ StartThread
    \/ \E u \in Shards : ShardGet(u)
    \/ \E u \in Shards : AppendHits(u)
    \/ \E u \in Shards : CheckUpdated(u)
    \/ \E u \in Shards : SetSemantic(u)
    \/ \E u \in Shards : SetUpdated(u)
    \/ JoinThread
    \/ Merge

ClusterSpec == ClusterInit /\ [][ClusterNext]_vars

\* ------------------------------------------------------------------ claims

\* The scores of a hit list do not increase
NonIncreasing(hits) ==
    \A i \in 1..(Len(hits) - 1) : hits[i].score >= hits[i + 1].score

DocidsOf(hits) == {hits[i].docid : i \in DOMAIN hits}

\* The answer of segment u is an OK response holding a JSON object
Answered(u) == answer[u].kind = "json" /\ answer[u].body.object

\* The answer of segment u is an object whose "hits", when present, is a
\* list of hits that each have a docid and a score
WellFormed(u) ==
    /\ Answered(u)
    /\ get_hits_or_empty(answer[u].body).type = "list"
    /\ \A h \in Range(get_hits_or_empty(answer[u].body).items) :
           {"docid", "score"} \subseteq DOMAIN h

\* The hits of the segments whose answer is well formed, in segment order
WellFormedHits ==
    Concat([u \in Shards |->
               IF WellFormed(u) THEN get_hits_or_empty(answer[u].body).items
               ELSE <<>>])

\* The hits of the segments that answered, in segment order
AnsweredHits ==
    Concat([u \in Shards |->
               IF Answered(u) THEN get_hits_or_empty(answer[u].body).items
               ELSE <<>>])

ReturnedHits == [i \in DOMAIN results |-> Hit(results[i].docid, results[i].score)]

\* ret is a choice of min(10, n) highest-scored hits among all
IsTopOf(ret, all) ==
    /\ Len(ret) = Min(TopK, Len(all))
    /\ \A h \in Range(ret) : Count(h, ret) <= Count(h, all)
    /\ \A h \in Range(all) :
           Count(h, ret) < Count(h, all) =>
               \A r \in Range(ret) : r.score >= h.score

\* C1: whatever one index segment answers (a timeout, a network error, a
\* status that is not OK, a body that is not JSON, a JSON body without a
\* well-formed list of hits), the search does not fail, and what it
\* returns is the top of the well-formed answers' hits.
C1_NoShardAnswerFailsTheSearch ==
    /\ pc # "failed"
    /\ pc = "returned" => IsTopOf(ReturnedHits, WellFormedHits)

\* C2: the merge starts only when every fetch thread has ended: from the
\* merge on, no thread is running and every segment's call has an outcome.
C2_MergeAfterEveryShardCall ==
    pc \in {"merge", "returned", "failed"} =>
        \A u \in Shards : thread[u] = "done" /\ answer[u].kind # "none"

\* C2 witness: a search has returned hits although a segment timed out.
C2_Witness ==
    /\ pc = "returned"
    /\ results # <<>>
    /\ \E u \in Shards : answer[u].kind = "timeout"
    /\ \E u \in Shards : Answered(u)

\* C3: one call of perform_enhanced_search returns at most 10 hits.
C3_AtMostTenHitsPerShard ==
    call.made => Len(call.hits) <= TopK

\* C4: the list the search returns is the min(10, n) highest-scored hits of
\* the n hits of the segments that answered: at most 10, a sub-multiset
\* of these hits, and no omitted hit beats a returned one.
C4_TopTenOfAllHits ==
    pc = "rendered" => IsTopOf(ReturnedHits, AnsweredHits)

\* C5: every hit list is ordered by non-increasing score: the list of
\* perform_enhanced_search in each mode, and the list the search returns.
C5_HitsOrderedByScore ==
    /\ call.made => NonIncreasing(call.hits)
    /\ pc \in {"returned", "rendered"} => NonIncreasing(results)

\* C5 witness: a hybrid search with the semantic engine available returned
\* three or more hits of different scores.
C5_Witness ==
    /\ call.made
    /\ INDEX_DATA = MainIndex
    /\ call.search_mode = "hybrid"
    /\ is_semantic_available
    /\ Len(call.hits) >= 3
    /\ call.hits[1].score > call.hits[Len(call.hits)].score

\* The documents that have a posting in the loaded index
IndexedDocs == UNION {get_docs_for_term(t) : t \in DOMAIN INDEX_DATA}

\* The terms of the query that survive the stopword filter and are indexed
SurvivingTerms(query) == valid_terms_of(process_query(query))

\* The cosine similarity of the query and a document, from the index
Cosine(query, docid) ==
    _calculate_tfidf_score(docid, SurvivingTerms(query),
                           _calculate_query_vector(SurvivingTerms(query)))

\* C6: in traditional mode every hit is a document of the index and its
\* score is (1 - w) * cosine_similarity + w * pagerank (0.0 by default).
C6_TraditionalScoreFromIndex ==
    (call.made /\ call.search_mode = "traditional") =>
        \A h \in Range(call.hits) :
            /\ h.docid \in IndexedDocs
            /\ h.score = combined_score(call.weight, Cosine(call.query, h.docid),
                                        pagerank_get(h.docid))

\* C7: with w = 1 every score is the document's PageRank; with w = 0 every
\* score of the traditional mode is the cosine similarity.
C7_WeightExtremes ==
    call.made =>
        /\ call.weight = Scale =>
               \A h \in Range(call.hits) : h.score = pagerank_get(h.docid)
        /\ (call.weight = 0 /\ call.search_mode = "traditional") =>
               \A h \in Range(call.hits) : h.score = Cosine(call.query, h.docid)

\* C8: the traditional result of a query is the result of the query with
\* the terms absent from the index removed.
C8_AbsentTermsDropped ==
    (call.made /\ call.search_mode = "traditional") =>
        call.hits = _perform_traditional_search(SurvivingTerms(call.query),
                                                call.weight, call.order)

\* C9: in traditional mode the returned documents are exactly those with a
\* posting for every surviving term of the query (stated for the queries
\* whose vector is not zero: with a zero vector the search returns no hit
\* before it looks for documents).
C9_ExactlyTheIntersection ==
    (/\ call.made
     /\ call.search_mode = "traditional"
     /\ DOMAIN _calculate_query_vector(SurvivingTerms(call.query)) # {}) =>
        DocidsOf(call.hits) =
            {d \in IndexedDocs :
                /\ SurvivingTerms(call.query) # <<>>
                /\ \A t \in Range(SurvivingTerms(call.query)) :
                       d \in get_docs_for_term(t)}

\* C10: with the index of the one-document corpus (docid 1, "water
\* bottle", idf 0), the traditional query "water bottle" returns document
\* 1 alone, with score w * pagerank(1).
C10_SingleDocumentCorpus ==
    (/\ call.made
     /\ INDEX_DATA = SingleIndex
     /\ call.search_mode = "traditional"
     /\ call.query = JoinWords(<< W_water, W_bottle >>)) =>
        call.hits = << Hit(1, FMul(call.weight, pagerank_get(1))) >>


\* ---- claims about the pipeline

\* The run of the pipeline has ended without an exception
Finished == server = "pipeline" /\ program = "finished"

\* The index file of segment k
SegmentFile(k) == output_dir["reduce5"][k + 1]

\* The places (line, position of the docid) of a segment file that hold
\* the posting (term, docid, tf, idf, norm)
PostingPlaces(file, posting) ==
    {<< l, i >> \in (DOMAIN file) \X (3..8) :
        /\ i + 2 <= Len(file[l])
        /\ i % 3 = 0
        /\ file[l][1] = posting[1]
        /\ file[l][2] = posting[4]
        /\ file[l][i] = posting[2]
        /\ file[l][i + 1] = posting[3]
        /\ file[l][i + 2] = posting[5]}

\* The postings (term, docid, tf, idf, norm) of a segment file
FilePostings(file) ==
    {<< file[l][1], file[l][i], file[l][i + 1], file[l][2], file[l][i + 2] >> :
        << l, i >> \in {<< l, i >> \in (DOMAIN file) \X (3..8) :
                           i + 2 <= Len(file[l]) /\ i % 3 = 0}}

Ended(p) ==
    /\ server = "pipeline"
    /\ \/ program = "finished"
       \/ \E i, j \in DOMAIN Programs :
             Programs[i] = p /\ Programs[j] = program /\ i < j

\* The records (term, docid, tf) the IDF stage has read
IdfInput == with_noise("map3", 0, output_dir["reduce2"])

\* df(t): the distinct docids with at least one occurrence of term
DocumentFrequency(term) ==
    Cardinality({IdfInput[i][2] : i \in {i \in DOMAIN IdfInput :
                                           Len(IdfInput[i]) = 3
                                           /\ IdfInput[i][1] = term}})

NormOf(docid) ==
    LET inp == output_dir["reduce3"]
        of_doc == {inp[i] : i \in {i \in DOMAIN inp : inp[i][2] = docid}}
        squares == [q \in of_doc |-> (q[3] * q[4]) * (q[3] * q[4])]
    IN  FSqrt(SumOver(squares, of_doc))

C14_MalformedLinesSkipped ==
    server = "pipeline" => exit_status # "aborted"

\* ------------------------------------------------ the shard endpoint's claims

\* The semantic collaborator cannot serve the query: it is unavailable, or
\* its encoder raises
Degraded == ~is_semantic_available \/ semantic_engine.encode_raises

\* The list the traditional mode returns for the query of the call
TraditionalList ==
    _perform_traditional_search(process_query(call.query), call.weight, call.order)

\* C15: when the semantic collaborator is unavailable or raises during the
\* query, a semantic or hybrid query returns exactly the list of the
\* traditional mode for the same query and weight, and the response reports
\* semantic_available = false.
C15_DegradesToTraditional ==
    (response.sent /\ call.made /\ call.search_mode \in {"semantic", "hybrid"}
        /\ Degraded) =>
        /\ response.hits = TraditionalList
        /\ response.semantic_available = FALSE

\* The documents the traditional and the semantic method surface for the call
TraditionalDocs == {h.docid : h \in Range(TraditionalList)}
SemanticDocs ==
    {r.docid : r \in Range(get_semantic_results(call.query, HybridTopK))}

\* The traditional cosine score of a document the traditional method
\* surfaced, 0 for a document it did not
TfidfSignal(docid) ==
    IF docid \in TraditionalDocs THEN Cosine(call.query, docid) ELSE 0

\* C16: in hybrid mode with the semantic collaborator available the scored
\* documents are the union of those the traditional and the semantic method
\* surfaced (the ten best of them), and the score of each is
\* 0.5*(1-w)*tfidf + 0.5*(1-w)*semantic + w*pagerank with tfidf the cosine
\* score without PageRank part and 0 for a signal the document lacks.
C16_HybridBlendOverUnion ==
    (call.made /\ call.search_mode = "hybrid" /\ ~Degraded) =>
        /\ \A h \in Range(call.hits) :
               /\ h.docid \in TraditionalDocs \cup SemanticDocs
               /\ h.score =
                      hybrid_score(call.weight, TfidfSignal(h.docid),
                                   semantic_score_of(
                                       get_semantic_results(call.query, HybridTopK),
                                       h.docid),
                                   pagerank_get(h.docid))
        /\ Cardinality(TraditionalDocs \cup SemanticDocs) <= TopK =>
               {h.docid : h \in Range(call.hits)} = TraditionalDocs \cup SemanticDocs

\* C17: the endpoint rejects no request: a missing or empty q yields empty
\* hits, the weight used for scoring lies in [0,1] (0.5 replaces a w that is
\* missing or no valid float in 0..1), and the mode used is the one given if
\* it is traditional, semantic or hybrid (in any case of the letters) and
\* traditional otherwise.
C17_ParametersDefaulted ==
    response.sent =>
        /\ args.q.text = <<>> => response.hits = <<>>
        /\ call.made =>
               /\ 0 <= call.weight /\ call.weight <= Scale
               /\ (~args.w.given \/ float(args.w.text) = NonNumeric) =>
                      call.weight = Scale \div 2
               /\ call.search_mode =
                      IF args.semantic.given
                         /\ lower(args.semantic.text) \in SearchModes
                      THEN lower(args.semantic.text) ELSE "traditional"

\* C18: every response of GET /hits/, the one to a missing or empty q
\* included, has a "hits" list and a boolean "semantic_available" field.
C18_ResponseShape ==
    response.sent =>
        /\ {"hits", "semantic_available"} \subseteq response.fields
        /\ response.semantic_available \in BOOLEAN

\* ------------------------------------------------- the tokenizers' claim

\* C19: for the text of every document map2 reads, and the same stopword
\* file, process_query yields exactly the sequence of terms map2 emits for
\* the text: upper-case letters and characters whose case-folded form
\* contains ASCII letters included.
C19_SameTokenization ==
    (Running("map2") /\ stdin # <<>> /\ Len(Head(stdin)) >= 2
        /\ STOPWORDS = globals.stop) =>
        process_query(Head(stdin)[2]) = map2_terms(Head(stdin)[2], globals.stop)

\* ---------------------------------------------------- the broadcast's claim

\* A result of the page is a hit of the answer of some index segment
FromShard(r) ==
    \E u \in Shards :
        /\ Answered(u)
        /\ get_hits_or_empty(answer[u].body).type = "list"
        /\ Hit(r.docid, r.score) \in Range(get_hits_or_empty(answer[u].body).items)

\* C20: for every search with a non-empty query, whatever its text and
\* weight, every endpoint has been called (once, by its own thread) with
\* the query, weight and mode of the request when the page is rendered,
\* and every hit of the page comes from the answer of an index segment.
C20_EveryShardCalledOnce ==
    (pc = "rendered" /\ request.query # <<>>) =>
        /\ \A u \in Shards : answer[u].kind # "none" /\ thread[u] = "done"
        /\ \A r \in Range(results) : FromShard(r)

\* ------------------------------------------------------ the reload's claim

\* The three tables a query reads
Tables == << INDEX_DATA, STOPWORDS, PAGERANK >>

\* C21: every read of a table by a query served while load_index runs again
\* finds the complete old tables or the complete new tables, never an
\* emptied or partly filled table or a mix; and once the reload is done the index holds exactly the
\* terms of the new files.
C21_ReloadIsAtomic ==
    /\ [][(ReadsTables /\ reload.pc # "none") =>
             \/ Tables = << reload.old.index, reload.old.stopwords,
                            reload.old.pagerank >>
             \/ Tables = << reload.index_data, reload.stopwords,
                            reload.pagerank >>]_vars
    /\ [](reload.pc = "done" => DOMAIN INDEX_DATA = DOMAIN reload.index_data)

\* C22: no query changes the tables: every step of a server that has loaded
\* its files, whatever the query and the mode (an early return, an unknown
\* term and a fallback included), leaves INDEX_DATA, STOPWORDS and PAGERANK
\* as they were.
C22_QueriesLeaveTablesUnchanged ==
    [][server = "index" => Tables' = Tables]_vars

\* C22 witness: a hybrid query for an unknown term and a known one has been
\* answered by the fallback to the traditional mode, on the main corpus.
C22_Witness ==
    /\ response.sent
    /\ call.made
    /\ call.search_mode = "hybrid"
    /\ ~is_semantic_available
    /\ INDEX_DATA = MainIndex
    /\ call.query = JoinWords(<< W_zzz, W_apache >>)
    /\ call.hits # <<>>

\* ----------------------------------------------- the unresponsive shard

\* The call of segment u ended by the timeout of requests.get
TimedOut(u) == answer[u].kind = "timeout"

\* The documents of segment u: docid mod 3 = u - 1
OfShard(docid, u) == docid % NumShards = u - 1

\* C23: if a segment never responds, the search still returns: once its
\* call has timed out the page is eventually rendered, and no hit of the
\* page is a document of that segment.
C23_UnresponsiveShard ==
    \A u \in Shards :
        /\ TimedOut(u) ~> (pc = "rendered")
        /\ []((pc = "rendered" /\ TimedOut(u)) =>
                 \A r \in Range(results) : ~OfShard(r.docid, u))

\* ------------------------------------------------------------ ties

\* C24: the engine breaks ties of the score deterministically: for the same
\* index, query, weight and mode the list of a call is the same whatever
\* the iteration order of the set of candidate documents.
C24_TiesBrokenDeterministically ==
    call.made =>
        \A order \in IterationOrders(call.query, call.weight) :
            perform_enhanced_search(call.query, call.weight, call.search_mode,
                                    order) = call.hits

\* --------------------------------------------------------- the load

\* An index server has loaded the index files of the run
Loaded == server = "pipeline" /\ reload.pc = "loaded"

\* C25: loading loses no posting: for every term and docid with a posting
\* in one of the loaded files, get_docs_for_term(term) contains the docid,
\* also when the term has lines in several files.
C25_LoadKeepsEveryPosting ==
    Loaded =>
        \A k \in 0..(NumSegments - 1) :
            \A posting \in FilePostings(SegmentFile(k)) :
                posting[2] \in get_docs_for_term(posting[1])

\* C26: the list the search server returns never holds a docid twice, in
\* any search mode, the index directory holding one file for each segment
\* (the docids of the three files are disjoint)
C26_NoDocidTwice ==
    pc = "rendered" =>
        \A i, j \in DOMAIN results :
            results[i].docid = results[j].docid => i = j

\* search_metadata["semantic_available"] when the threads end one after the
\* other in the order of the urls: the value of the first answer that is an
\* object
InOrderSemantic ==
    IF \E u \in Shards : Answered(u)
    THEN get_semantic_or_false(
             answer[CHOOSE u \in Shards :
                       Answered(u) /\ \A v \in Shards : Answered(v) => u <= v].body)
    ELSE FALSE

\* C27: what the search returns does not depend on the order in which the
\* threads of the segments end: the hits, with the equal-scored hits that
\* survive the cut to 10 and their order, and semantic_available are those
\* of the run in which the threads end in the order of the urls.
C27_IndependentOfCompletionOrder ==
    pc = "returned" =>
        /\ ReturnedHits = top_hits_of(AnsweredHits)
        /\ search_metadata.semantic_available = InOrderSemantic

=========================================================================
